---- MODULE Spec2Model ----
(***************************************************************************)
(* castelia-rtmp: the RTMP connection engine.                              *)
(*                                                                         *)
(* One connection task (RTMPConnection::process) reads bytes that a client *)
(* has put on the socket: the handshake first, then chunks, which the      *)
(* chunk multiplexer reassembles into messages that are parsed.            *)
(* All byte strings are sequences of integers 0..255.                      *)
(***************************************************************************)
EXTENDS Integers, Sequences, FiniteSets, TLC

VARIABLES
    pc,               \* position of the connection task in process()/handshake()
    wire,             \* bytes the client has sent and the server has not read yet
    eof,              \* the client has closed its side of the socket
    outq,             \* bytes the server has written and the client has not read yet
    client_buf,       \* handshake(): client_buf
    server_buf,       \* handshake(): server_buf
    read_timestamp,   \* handshake(): read_timestamp
    total_bytes_read, \* handshake.rs read_chunk(): total_bytes_read
    chunk_streams,    \* ChunkMultiplexer.chunk_streams: CSId -> PartialMessage
    max_chunk_size,   \* NetConnection.max_chunk_size
    chunk,            \* the Chunk read_chunk returned last
    ret,              \* what receive_chunk returned last (NoMessage for None)
    emitted,          \* every message receive_chunk has returned, in order
    parsed,           \* what Message::parse_message returned last
    err,              \* the error handshake() or read_chunk returned, as it displays
    cpc,              \* position of the client
    pending,          \* bytes of C1 / C2 the transport has not delivered yet
    nsent,            \* number of chunk frames the client has sent
    entry,            \* the function under way: "process", "handshake",
                      \* "receive_chunk", "run"
    listening,        \* RTMPSever::run is in its accept loop
    conns,            \* RTMPSever::run: the connection tasks it has spawned
    input,            \* the arguments of Message::parse_message called on its own
    decoder,          \* amf::Decoder: the buffer and the position of its cursor
    decoded,          \* what each call of Decoder::decode has returned, in order
    amf_in,           \* the values whose encodings the decoder's buffer holds
    parsed_header,    \* ChunkHeader::read_header called on its own: what it has parsed
    hs_sent,          \* handshake() on its own: every byte the client has sent
    written           \* handshake() on its own: every byte the server has written

vars == <<pc, wire, eof, outq, client_buf, server_buf, read_timestamp,
          total_bytes_read,
          chunk_streams, max_chunk_size, chunk, ret, emitted, parsed, err,
          cpc, pending, nsent, entry, listening, conns, input, decoder,
                   decoded, amf_in, parsed_header, hs_sent, written>>

-----------------------------------------------------------------------------
(* Bounds of the model *)

\* chunk frames the client sends after the handshake
MaxFrames == 3

\* chunks fed to a multiplexer on its own
MaxChunks == 4

\* connections the listener accepts
MaxConns == 3

\* chunks each of these connections receives
MaxConnChunks == 1

\* AMF0 values encoded one behind the other in a decoder's buffer
MaxValues == 2

-----------------------------------------------------------------------------
(* Program constants *)

HANDSHAKE_CHUNK_SIZE == 4 + 4 + 1528
RTMP_VERSION == 3
SET_CHUNK_SIZE == 1
ABORT == 2
ACK == 3
USER_CONTROL_TYPE == 4
WINDOW_ACK_SIZE == 5
SET_PEER_BANDWIDTH == 6
AUDIO == 8
VIDEO == 9
SHARED_OBJECT_AMF3 == 14
DATA_AMF3 == 15
SHARED_OBJECT_AMF0 == 16
COMMAND_AMF3 == 17
DATA_AMF0 == 18
COMMAND_AMF0 == 20
AGGREGATE == 22

\* NetConnection::new: max_chunk_size
NetConnectionNew == 4096

\* Option::None of a u32 / u8 field
None == -1

-----------------------------------------------------------------------------
(* Bytes *)

Min(a, b) == IF a <= b THEN a ELSE b

Fill(n, b) == [i \in 1..n |-> b]

Take(s, n) == SubSeq(s, 1, n)

Drop(s, n) == SubSeq(s, n + 1, Len(s))

\* u32::from_be_bytes([0, b1, b2, b3])
U24BE(s, i) == s[i] * 65536 + s[i + 1] * 256 + s[i + 2]

\* u32::from_be_bytes / AsyncReadExt::read_u32 (big-endian). A u32 is kept
\* as <<high 16 bits, low 16 bits>>, its value high * 2^16 + low.
U32BE(s, i) == <<s[i] * 256 + s[i + 1], s[i + 2] * 256 + s[i + 3]>>

\* the u32 with the value of the natural number n < 2^31
U32(n) == <<n \div 65536, n % 65536>>

\* Option::None of a u32 field read with U32BE
NoU32 == <<None, None>>

\* n.to_be_bytes() of a 24-bit value
BE24(n) == <<(n \div 65536) % 256, (n \div 256) % 256, n % 256>>

-----------------------------------------------------------------------------
(* chunks/header.rs: the chunk header, parsed from the bytes s at hand.    *)
(* st = "short" says s ends before the header does.                        *)

\* BasicHeader::parse. checks: the build has overflow checks (a debug build
\* panics on u16 overflow, a release build wraps).
BasicHeaderParse(s, checks) ==
    IF Len(s) < 1 THEN [st |-> "short"]
    ELSE LET byte1 == s[1]
             header_type == byte1 % 64
         IN  CASE header_type = 0 ->
                    IF Len(s) < 2 THEN [st |-> "short"]
                    ELSE [st |-> "ok", chunk_type |-> byte1 \div 64,
                          chunk_stream_id |-> s[2] + 64, n |-> 2]
               [] header_type = 1 ->
                    IF Len(s) < 3 THEN [st |-> "short"]
                    ELSE LET sum == (s[3] * 256) + (s[2] + 64)
                         IN  IF sum > 65535 /\ checks THEN [st |-> "panic"]
                             ELSE [st |-> "ok", chunk_type |-> byte1 \div 64,
                                   chunk_stream_id |-> sum % 65536, n |-> 3]
               [] OTHER ->
                    [st |-> "ok", chunk_type |-> byte1 \div 64,
                     chunk_stream_id |-> header_type, n |-> 1]

\* MessageHeader::parse and parse_type0..3
MessageHeaderParse(s, chunk_type) ==
    CASE chunk_type = 0 ->
           IF Len(s) < 11 THEN [st |-> "short"]
           ELSE [st |-> "ok", timestamp |-> U24BE(s, 1),
                 message_length |-> U24BE(s, 4), message_type_id |-> s[7],
                 message_stream_id |-> U32BE(s, 8), n |-> 11]
      [] chunk_type = 1 ->
           IF Len(s) < 7 THEN [st |-> "short"]
           ELSE [st |-> "ok", timestamp |-> U24BE(s, 1),
                 message_length |-> U24BE(s, 4), message_type_id |-> s[7],
                 message_stream_id |-> NoU32, n |-> 7]
      [] chunk_type = 2 ->
           IF Len(s) < 3 THEN [st |-> "short"]
           ELSE [st |-> "ok", timestamp |-> U24BE(s, 1),
                 message_length |-> None, message_type_id |-> None,
                 message_stream_id |-> NoU32, n |-> 3]
      [] chunk_type = 3 ->
           [st |-> "ok", timestamp |-> None,
            message_length |-> None, message_type_id |-> None,
            message_stream_id |-> NoU32, n |-> 0]
      [] OTHER -> [st |-> "invalid_chunk_type"]

\* MessageHeader::has_extended_timestamp
HasExtendedTimestamp(mh) == mh.timestamp = 16777215

\* ChunkHeader::read_header
ReadHeader(s, checks) ==
    LET bh == BasicHeaderParse(s, checks) IN
    IF bh.st # "ok" THEN [st |-> bh.st]
    ELSE LET mh == MessageHeaderParse(SubSeq(s, bh.n + 1, Min(Len(s), bh.n + 11)),
                                       bh.chunk_type) IN
         IF mh.st # "ok" THEN [st |-> mh.st]
         ELSE LET ext == HasExtendedTimestamp(mh)
                  n == bh.n + mh.n
              IN  IF ext /\ Len(s) < n + 4 THEN [st |-> "short"]
                  ELSE [st |-> "ok",
                        header |->
                          [chunk_type |-> bh.chunk_type,
                           chunk_stream_id |-> bh.chunk_stream_id,
                           timestamp |-> mh.timestamp,
                           message_length |-> mh.message_length,
                           message_type_id |-> mh.message_type_id,
                           message_stream_id |-> mh.message_stream_id,
                           extended_timestamp |->
                             IF ext THEN U32BE(s, n + 1) ELSE NoU32,
                           basic_len |-> bh.n,
                           message_len |-> mh.n],
                        n |-> IF ext THEN n + 4 ELSE n]

\* ChunkHeader::chunk_stream_id
HeaderChunkStreamId(header) == header.chunk_stream_id

\* ChunkHeader::get_message_length: Some(length) for Type 0 and Type 1
GetMessageLength(header) == header.message_length

\* ChunkHeader::get_message_type: Some(type id) for Type 0 and Type 1
GetMessageType(header) == header.message_type_id

\* ChunkHeader::len: the header's length on the wire
HeaderLen(header) ==
    header.basic_len + header.message_len
      + (IF header.extended_timestamp # NoU32 THEN 4 ELSE 0)

-----------------------------------------------------------------------------
(* chunks/mod.rs *)

\* Option::unwrap_or
UnwrapOr(v, d) == IF v = None THEN d ELSE v

\* Chunk::read_chunk, the size of the payload it reads after the header
PayloadSize(max, header) ==
    LET max_bytes_remaining == max - HeaderLen(header)
    IN  Min(max_bytes_remaining, UnwrapOr(GetMessageLength(header), 0))

\* Chunk::read_chunk on the bytes s at hand: "short_payload" says the
\* header is complete and read_exact still waits for payload bytes.
\* The header is read once: h is bound to the value of ReadHeader.
ReadChunkOn(s, max, checks) ==
    LET AfterHeader(h) ==
          IF h.st # "ok" THEN [st |-> h.st]
          ELSE IF max < HeaderLen(h.header) /\ checks THEN [st |-> "panic"]
          ELSE LET size == IF max < HeaderLen(h.header)
                           THEN UnwrapOr(GetMessageLength(h.header), 0)
                           ELSE PayloadSize(max, h.header)
               IN  IF Len(s) < h.n + size THEN [st |-> "short_payload"]
                   ELSE [st |-> "ok",
                         chunk |-> [header |-> h.header,
                                    payload |-> SubSeq(s, h.n + 1, h.n + size)],
                         n |-> h.n + size]
    IN  CHOOSE r \in {AfterHeader(h) : h \in {ReadHeader(s, checks)}} : TRUE

-----------------------------------------------------------------------------
(* chunks/chunk_mux.rs *)

\* ChunkMultiplexer::new: an empty HashMap
NoStreams == [c \in {} |-> 0]

\* receive_chunk returning None
NoMessage == [some |-> FALSE, bytes |-> <<>>, message_type |-> None]

\* an insert that loses the other entries
MapInsertAlone(m, k, v) == [c \in {k} |-> v]

\* HashMap::insert
MapInsert(m, k, v) == [c \in DOMAIN m \cup {k} |-> IF c = k THEN v ELSE m[c]]

\* a remove that leaves the entry in the map
MapRemoveNothing(m, k) == m

\* HashMap::remove
MapRemove(m, k) == [c \in DOMAIN m \ {k} |-> m[c]]

\* receive_chunk putting the payload in front of the Partial's bytes
ReceiveChunkUpdatePrepend(streams, ch) ==
    LET cs_id == HeaderChunkStreamId(ch.header) IN
    IF cs_id \in DOMAIN streams
    THEN [dropped |-> FALSE,
          streams |-> [streams EXCEPT ![cs_id].bytes = ch.payload \o @]]
    ELSE IF GetMessageLength(ch.header) # None /\ GetMessageType(ch.header) # None
    THEN [dropped |-> FALSE,
          streams |-> MapInsert(streams, cs_id,
                        [length |-> GetMessageLength(ch.header),
                         message_type |-> GetMessageType(ch.header),
                         bytes |-> ch.payload])]
    ELSE [dropped |-> TRUE, streams |-> streams]

\* receive_chunk opening a Partial for a chunk that has no length or type id
ReceiveChunkUpdateAlways(streams, ch) ==
    LET cs_id == HeaderChunkStreamId(ch.header) IN
    IF cs_id \in DOMAIN streams
    THEN [dropped |-> FALSE,
          streams |-> [streams EXCEPT ![cs_id].bytes = @ \o ch.payload]]
    ELSE [dropped |-> FALSE,
          streams |-> MapInsert(streams, cs_id,
                        [length |-> UnwrapOr(GetMessageLength(ch.header), 0),
                         message_type |-> UnwrapOr(GetMessageType(ch.header), 0),
                         bytes |-> ch.payload])]

\* ChunkMultiplexer::receive_chunk, lines 24-40: the Partial of the chunk's
\* CSId is extended or inserted; dropped says the chunk was dropped.
ReceiveChunkUpdate(streams, ch) ==
    LET cs_id == HeaderChunkStreamId(ch.header) IN
    IF cs_id \in DOMAIN streams
    THEN [dropped |-> FALSE,
          streams |-> [streams EXCEPT ![cs_id].bytes = @ \o ch.payload]]
    ELSE IF GetMessageLength(ch.header) # None /\ GetMessageType(ch.header) # None
    THEN [dropped |-> FALSE,
          streams |-> MapInsert(streams, cs_id,
                        [length |-> GetMessageLength(ch.header),
                         message_type |-> GetMessageType(ch.header),
                         bytes |-> ch.payload])]
    ELSE [dropped |-> TRUE, streams |-> streams]

\* ChunkMultiplexer::receive_chunk: the map after the call and what it returns
ReceiveChunkOn(streams, ch) ==
    LET cs_id == HeaderChunkStreamId(ch.header)
        u == ReceiveChunkUpdate(streams, ch)
    IN  IF u.dropped THEN [streams |-> streams, ret |-> NoMessage]
        ELSE IF cs_id \in DOMAIN u.streams
                /\ u.streams[cs_id].length = Len(u.streams[cs_id].bytes)
        THEN [streams |-> MapRemove(u.streams, cs_id),
              ret |-> [some |-> TRUE, bytes |-> u.streams[cs_id].bytes,
                       message_type |-> u.streams[cs_id].message_type]]
        ELSE [streams |-> u.streams, ret |-> NoMessage]

-----------------------------------------------------------------------------
(* amf.rs: the AMF0 decoder. A value is a record of its type t and its     *)
(* content: the 8 bytes of a Number, the truth value of a Boolean, the     *)
(* bytes of a String, the <<key, value>> pairs of an Object, one for each  *)
(* key, in the order of their insertion.                                   *)

NUMBER == 0
BOOL == 1
\* amf0_type_marker::STRING (STRING is a word of TLA+)
STRING_MARKER == 2
OBJECT_START == 3
OBJECT_END == 9
NULL == 5

AMFNull == [t |-> "Null", num |-> <<>>, bool |-> FALSE, str |-> <<>>, obj |-> <<>>]
AMFNumber(bytes) == [AMFNull EXCEPT !.t = "Number", !.num = bytes]
AMFBoolean(b) == [AMFNull EXCEPT !.t = "Boolean", !.bool = b]
AMFString(bytes) == [AMFNull EXCEPT !.t = "String", !.str = bytes]
AMFObject(pairs) == [AMFNull EXCEPT !.t = "Object", !.obj = pairs]

\* str::from_utf8 on the strings of the model, which hold ASCII bytes or the
\* byte 0xFF that no UTF-8 text holds
Utf8Ok(bytes) == \A i \in 1..Len(bytes) : bytes[i] < 128

\* Err(e) of the decoder; the cursor stays where the error left it
DecodeErr(e, position) == [ok |-> FALSE, err |-> e, value |-> AMFNull, position |-> position]

DecodeOk(value, position) == [ok |-> TRUE, err |-> "", value |-> value, position |-> position]

\* Decoder::decode_number with the cursor at position (bytes before it)
DecodeNumber(buf, position) ==
    IF Len(buf) - position < 8 THEN DecodeErr("InvalidNumber", position)
    ELSE DecodeOk(AMFNumber(SubSeq(buf, position + 1, position + 8)), position + 8)

\* Decoder::decode_bool
DecodeBool(buf, position) ==
    IF Len(buf) - position < 1 THEN DecodeErr("InvalidBool", position)
    ELSE DecodeOk(AMFBoolean(buf[position + 1] = 1), position + 1)

\* Decoder::decode_string
DecodeString(buf, position) ==
    IF Len(buf) - position < 2 THEN DecodeErr("UnexpectedEOF", position)
    ELSE LET length == buf[position + 1] * 256 + buf[position + 2]
             value == SubSeq(buf, position + 3, position + 2 + length)
         IN  IF Len(buf) - (position + 2) < length
             THEN DecodeErr("UnexpectedEOF", position + 2)
             ELSE IF ~Utf8Ok(value)
             THEN DecodeErr("InvalidUtf8", position + 2 + length)
             ELSE DecodeOk(AMFString(value), position + 2 + length)

\* HashMap::insert
ObjInsert(obj, key, value) ==
    LET Other(p) == p[1] # key IN SelectSeq(obj, Other) \o << <<key, value>> >>

RECURSIVE Decode(_, _)
RECURSIVE DecodeObject(_, _, _)

\* an object decoder that steps over the end marker it has found
DecodeObjectPastEnd(buf, position, obj) ==
    IF /\ Len(buf) - position >= 3
       /\ SubSeq(buf, position + 1, position + 3) = <<0, 0, OBJECT_END>>
    THEN DecodeOk(AMFObject(obj), position + 3)
    ELSE LET k == DecodeString(buf, position) IN
         IF ~k.ok THEN k
         ELSE LET val == Decode(buf, k.position) IN
              IF ~val.ok THEN val
              ELSE DecodeObject(buf, val.position, ObjInsert(obj, k.value.str, val.value))

\* Decoder::decode_object: the loop, with the map obj built so far
DecodeObject(buf, position, obj) ==
    IF /\ Len(buf) - position >= 3
       /\ SubSeq(buf, position + 1, position + 3) = <<0, 0, OBJECT_END>>
    THEN DecodeOk(AMFObject(obj), position)
    ELSE LET k == DecodeString(buf, position) IN
         IF ~k.ok THEN k
         ELSE LET val == Decode(buf, k.position) IN
              IF ~val.ok THEN val
              ELSE DecodeObject(buf, val.position, ObjInsert(obj, k.value.str, val.value))

\* Decoder::decode
Decode(buf, position) ==
    IF Len(buf) - position < 1 THEN DecodeErr("MissingTypeMarker", position)
    ELSE LET type_marker == buf[position + 1] IN
         CASE type_marker = NUMBER -> DecodeNumber(buf, position + 1)
           [] type_marker = BOOL -> DecodeBool(buf, position + 1)
           [] type_marker = STRING_MARKER -> DecodeString(buf, position + 1)
           [] type_marker = OBJECT_START -> DecodeObject(buf, position + 1, <<>>)
           [] type_marker = NULL -> DecodeOk(AMFNull, position + 1)
           [] OTHER -> DecodeErr("UnknownMarker", position + 1)

\* value.try_into() for the type t: the value, or a CastError
Cast(r, t) ==
    IF ~r.ok THEN r
    ELSE IF r.value.t # t THEN DecodeErr("CastError", r.position)
    ELSE r

\* (n as u16).to_be_bytes()
BE16(n) == <<(n \div 256) % 256, n % 256>>

RECURSIVE Encode(_)
RECURSIVE EncodePairs(_)

\* the properties of an object: each a length-prefixed key and its value
EncodePairs(pairs) ==
    IF pairs = <<>> THEN <<>>
    ELSE BE16(Len(pairs[1][1])) \o pairs[1][1] \o Encode(pairs[1][2])
            \o EncodePairs(Tail(pairs))

\* the AMF0 encoding of a value: its marker and its content
Encode(value) ==
    CASE value.t = "Number" -> <<NUMBER>> \o value.num
      [] value.t = "Boolean" -> <<BOOL, IF value.bool THEN 1 ELSE 0>>
      [] value.t = "String" -> <<STRING_MARKER>> \o BE16(Len(value.str)) \o value.str
      [] value.t = "Object" ->
            <<OBJECT_START>> \o EncodePairs(value.obj) \o <<0, 0, OBJECT_END>>
      [] value.t = "Null" -> <<NULL>>

RECURSIVE EncodeAll(_)

\* the encodings of the values, concatenated
EncodeAll(values) ==
    IF values = <<>> THEN <<>> ELSE Encode(values[1]) \o EncodeAll(Tail(values))

-----------------------------------------------------------------------------
(* messages *)

\* ProtolControlMessage::parse_message
ParseProtocolControl(buf, message_type_id) ==
    IF Len(buf) < 4 THEN [ok |-> FALSE, kind |-> "InvalidMessageSize", data |-> NoU32, arg |-> None]
    ELSE LET data == U32BE(buf, 1) IN
         CASE message_type_id = SET_CHUNK_SIZE ->
                [ok |-> TRUE, kind |-> "SetChunkSize", data |-> data, arg |-> None]
           [] message_type_id = ABORT ->
                [ok |-> TRUE, kind |-> "Abort", data |-> data, arg |-> None]
           [] message_type_id = ACK ->
                [ok |-> TRUE, kind |-> "Ack", data |-> data, arg |-> None]
           [] message_type_id = WINDOW_ACK_SIZE ->
                [ok |-> TRUE, kind |-> "AckWindowSize", data |-> data, arg |-> None]
           [] message_type_id = SET_PEER_BANDWIDTH ->
                IF Len(buf) < 6
                THEN [ok |-> FALSE, kind |-> "InvalidMessageSize", data |-> NoU32, arg |-> None]
                ELSE [ok |-> TRUE, kind |-> "SetPeerBandwidth", data |-> data,
                       arg |-> buf[6]]
           [] OTHER ->
                [ok |-> FALSE, kind |-> "InvalidMessageTypeId", data |-> NoU32, arg |-> None]

\* UserControlMessage::parse_message: the event type and the u32 behind it
ParseUserControl(buf) ==
    IF Len(buf) < 6 THEN [ok |-> FALSE, kind |-> "InvalidMessageSize", data |-> NoU32, arg |-> None]
    ELSE LET event_type == buf[1] * 256 + buf[2]
             data == U32BE(buf, 3)
         IN  CASE event_type = 0 -> [ok |-> TRUE, kind |-> "StreamBegin", data |-> data, arg |-> None]
               [] event_type = 1 -> [ok |-> TRUE, kind |-> "StreamEOF", data |-> data, arg |-> None]
               [] event_type = 2 -> [ok |-> TRUE, kind |-> "StreamDry", data |-> data, arg |-> None]
               [] event_type = 3 -> [ok |-> TRUE, kind |-> "SetBufferLength", data |-> data,
                                      arg |-> U32BE(buf, 3)]
               [] event_type = 4 -> [ok |-> TRUE, kind |-> "StreamIsRecord", data |-> data, arg |-> None]
               [] event_type = 5 -> [ok |-> TRUE, kind |-> "PingRequest", data |-> data, arg |-> None]
               [] event_type = 6 -> [ok |-> TRUE, kind |-> "PingRepsonse", data |-> data, arg |-> None]
               [] OTHER -> [ok |-> FALSE, kind |-> "InvalidEventType", data |-> NoU32, arg |-> None]

\* NetStreamCommand::parse: the names it knows, as the bytes of their text,
\* the command each makes and the types its parse_* function asks the values
\* behind the command object for, in order ("Any" where it asks for none)
NetStreamVerbs ==
    {[name |-> <<112, 108, 97, 121>>, \* "play"
      command |-> "Play", types |-> <<"String", "Number", "Number", "Boolean">>],
     [name |-> <<112, 108, 97, 121, 50>>, \* "play2"
      command |-> "Play2", types |-> <<"Any">>],
     [name |-> <<100, 101, 108, 101, 116, 101, 83, 116, 114, 101, 97, 109>>, \* "deleteStream"
      command |-> "DeleteStream", types |-> <<"Number">>],
     [name |-> <<99, 108, 111, 115, 101, 83, 116, 114, 101, 97, 109>>, \* "closeStream"
      command |-> "CloseStream", types |-> <<"Number">>],
     [name |-> <<114, 101, 99, 101, 105, 118, 101, 65, 117, 100, 105, 111>>, \* "receiveAudio"
      command |-> "ReceiveAudio", types |-> <<"Boolean">>],
     [name |-> <<114, 101, 99, 101, 105, 118, 101, 86, 105, 100, 101, 111>>, \* "receiveVideo"
      command |-> "ReceiveVideo", types |-> <<"Boolean">>],
     [name |-> <<112, 117, 98, 108, 105, 115, 104>>, \* "publish"
      command |-> "Publish", types |-> <<"String", "String">>],
     [name |-> <<115, 101, 101, 107>>, \* "seek"
      command |-> "Seek", types |-> <<"Number">>],
     [name |-> <<112, 97, 117, 115, 101>>, \* "pause"
      command |-> "Pause", types |-> <<"Boolean", "Number">>]}

NetStreamNames == {verb.name : verb \in NetStreamVerbs}

RECURSIVE DecodeFields(_, _, _, _)

\* a parse_* function after the decode()?.try_into()? that returned r
DecodedField(buf, types, fields, r) ==
    IF ~r.ok THEN [ok |-> FALSE, err |-> r.err, fields |-> <<>>]
    ELSE DecodeFields(buf, r.position, Tail(types), Append(fields, r.value))

\* the decode()?.try_into()? calls of a parse_* function, one for each type
\* of types, from the cursor at position; fields are the values so far
DecodeFields(buf, position, types, fields) ==
    IF types = <<>> THEN [ok |-> TRUE, err |-> "", fields |-> fields]
    ELSE IF types[1] = "Any"
    THEN DecodedField(buf, types, fields, Decode(buf, position))
    ELSE DecodedField(buf, types, fields, Cast(Decode(buf, position), types[1]))

\* the command of NetStreamCommand::parse, parsed by the parse_* function of
\* the verb; a number that the command keeps as a u32 is kept as the Number
\* it was decoded to
NetStreamCommandOf(verb, r) ==
    [ok |-> r.ok, err |-> r.err, command |-> verb.command, fields |-> r.fields]

\* NetStreamCommand::parse(command, buf)
NetStreamParse(command, buf) ==
    IF command \in NetStreamNames
    THEN NetStreamCommandOf(CHOOSE w \in NetStreamVerbs : w.name = command,
                            DecodeFields(buf, 0,
                                (CHOOSE w \in NetStreamVerbs : w.name = command).types,
                                <<>>))
    ELSE [ok |-> FALSE, err |-> "InvalidCommand", command |-> "", fields |-> <<>>]

\* From<&str> for NetConnectionCommandType
NetConnectionCommandType(value) ==
    CASE value = <<99, 111, 110, 110, 101, 99, 116>> -> \* "connect"
            [command |-> "Connect", name |-> <<>>]
      [] value = <<99, 108, 111, 115, 101>> -> \* "close"
            [command |-> "Close", name |-> <<>>]
      [] value = <<99, 114, 101, 97, 116, 101, 83, 116, 114, 101, 97, 109>> ->
            \* "createStream"
            [command |-> "CreateStream", name |-> <<>>]
      [] OTHER -> [command |-> "Call", name |-> value]

\* an error of the command parser, by the name of its variant or of the
\* variant of the decoder's error it holds
CommandErr(e) == [ok |-> FALSE, kind |-> e, data |-> NoU32, arg |-> None]

\* parse_base_command: Ok((command, transaction_id, command_object)), with
\* the position the decoder is left at
BaseCommand(command, transaction_id, command_object) ==
    IF ~command_object.ok THEN [ok |-> FALSE, err |-> command_object.err]
    ELSE [ok |-> TRUE, err |-> "", command |-> command.value.str,
          transaction_id |-> transaction_id.value.num,
          command_object |-> command_object.value,
          position |-> command_object.position]

\* parse_base_command: let command_object = decoder.decode()?
DecodeCommandObject(buf, command, transaction_id) ==
    IF ~transaction_id.ok THEN [ok |-> FALSE, err |-> transaction_id.err]
    ELSE BaseCommand(command, transaction_id, Decode(buf, transaction_id.position))

\* parse_base_command: let transaction_id = decoder.decode()?.try_into()?
DecodeTransactionId(buf, command) ==
    IF ~command.ok THEN [ok |-> FALSE, err |-> command.err]
    ELSE DecodeCommandObject(buf, command,
                             Cast(Decode(buf, command.position), "Number"))

\* CommandMessage::parse_base_command on a new decoder
ParseBaseCommand(buf) == DecodeTransactionId(buf, Cast(Decode(buf, 0), "String"))

\* parse_netstream_command: Ok(CommandMessage::NetStreamCommand {..})
NetStreamCommand(base, command) ==
    IF ~command.ok THEN CommandErr(command.err)
    ELSE [ok |-> TRUE, kind |-> "NetStreamCommand", data |-> NoU32,
          arg |-> [command |-> command.command, name |-> <<>>,
                   fields |-> command.fields,
                   transaction_id |-> base.transaction_id,
                   command_object |-> base.command_object]]

\* parse_netstream_command on the base command parsed
NetstreamCommandOf(buf, base) ==
    IF ~base.ok THEN CommandErr(base.err)
    ELSE NetStreamCommand(base, NetStreamParse(base.command, Drop(buf, base.position)))

\* CommandMessage::parse_netstream_command
ParseNetstreamCommand(buf) == NetstreamCommandOf(buf, ParseBaseCommand(buf))

\* parse_netconnection_command: Ok(CommandMessage::NetConnectionCommand {..})
NetConnectionCommand(base, command_type) ==
    [ok |-> TRUE, kind |-> "NetConnectionCommand", data |-> NoU32,
     arg |-> [command |-> command_type.command, name |-> command_type.name,
              fields |-> <<>>,
              transaction_id |-> base.transaction_id,
              command_object |-> base.command_object]]

\* parse_netconnection_command on the base command parsed
NetconnectionCommandOf(base) ==
    IF ~base.ok THEN CommandErr(base.err)
    ELSE NetConnectionCommand(base, NetConnectionCommandType(base.command))

\* CommandMessage::parse_netconnection_command
ParseNetconnectionCommand(buf) == NetconnectionCommandOf(ParseBaseCommand(buf))

\* Result::or
Or(res, optb) == IF res.ok THEN res ELSE optb

\* CommandMessage::parse_command
ParseCommandAMF0(buf) == Or(ParseNetstreamCommand(buf), ParseNetconnectionCommand(buf))

\* CommandMessage::parse_message
ParseCommand(buf, message_type_id) ==
    CASE message_type_id = COMMAND_AMF0 -> ParseCommandAMF0(buf)
      [] message_type_id = AUDIO -> [ok |-> TRUE, kind |-> "Audio", data |-> NoU32, arg |-> None]
      [] message_type_id = VIDEO -> [ok |-> TRUE, kind |-> "Video", data |-> NoU32, arg |-> None]
      [] message_type_id \in {COMMAND_AMF3, DATA_AMF3, SHARED_OBJECT_AMF3} ->
           [ok |-> FALSE, kind |-> "UnsupportedEncoding", data |-> NoU32, arg |-> None]
      [] OTHER -> [ok |-> FALSE, kind |-> "InvalidMessageType", data |-> NoU32, arg |-> None]

\* the ? of Message::parse_message on the result of a sub-parser: its error
\* is returned by the variant it has
IntoParseMessageError(r) ==
    IF r.ok THEN r ELSE [ok |-> FALSE, kind |-> r.kind, data |-> NoU32, arg |-> None]

\* a dispatch that does not know the aggregate message
ParseMessageNoAggregate(buf, message_type_id) ==
    CASE message_type_id \in {SET_CHUNK_SIZE, ABORT, ACK, WINDOW_ACK_SIZE,
                              SET_PEER_BANDWIDTH} ->
           IntoParseMessageError(ParseProtocolControl(buf, message_type_id))
      [] message_type_id = USER_CONTROL_TYPE ->
           IntoParseMessageError(ParseUserControl(buf))
      [] message_type_id \in {COMMAND_AMF0, COMMAND_AMF3, DATA_AMF0, DATA_AMF3,
                              SHARED_OBJECT_AMF0, SHARED_OBJECT_AMF3, AUDIO,
                              VIDEO} ->
           IntoParseMessageError(ParseCommand(buf, message_type_id))
      [] OTHER ->
           [ok |-> FALSE, kind |-> "InvalidMessageTypeId", data |-> NoU32, arg |-> None]

\* Message::parse_message: the parser the type id dispatches to; data is the
\* u32 of a protocol-control or user-control message, arg the second field of
\* a message that has one
ParseMessage(buf, message_type_id) ==
    CASE message_type_id \in {SET_CHUNK_SIZE, ABORT, ACK, WINDOW_ACK_SIZE,
                              SET_PEER_BANDWIDTH} ->
           IntoParseMessageError(ParseProtocolControl(buf, message_type_id))
      [] message_type_id = USER_CONTROL_TYPE ->
           IntoParseMessageError(ParseUserControl(buf))
      [] message_type_id \in {COMMAND_AMF0, COMMAND_AMF3, DATA_AMF0, DATA_AMF3,
                              SHARED_OBJECT_AMF0, SHARED_OBJECT_AMF3, AUDIO,
                              VIDEO, AGGREGATE} ->
           IntoParseMessageError(ParseCommand(buf, message_type_id))
      [] OTHER ->
           [ok |-> FALSE, kind |-> "InvalidMessageTypeId", data |-> NoU32, arg |-> None]

NotParsed == [ok |-> FALSE, kind |-> "", data |-> NoU32, arg |-> None]

-----------------------------------------------------------------------------
(* The client: what it may put on the socket *)

\* get_timestamp(): the low 4 bytes of the millisecond clock
Timestamps == {<<0, 0, 0, 7>>, <<0, 0, 1, 0>>}

\* a display of UnsupportedVersion that leaves the version out
UnsupportedVersionBare(v) == "RTMP version is unsupported"

\* HandshakeError as it displays (#[error(...)])
UnsupportedVersion(v) == "RTMP version " \o ToString(v) \o " is unsupported"

InvalidHandshake(msg) == "Invalid handshake: " \o msg

ReadError == "Failed to read from socket"

WriteError == "Failed to write to socket"

\* get_timestamp(): the error when the clock is before the Unix epoch
ClockError ==
    InvalidHandshake("Could not generate timestamp for handshake, clock may have gone backwards")

\* rand::fill: the random part of S1 (one value per byte position)
RandomFills == {170, 85}

\* C1 as the client builds it: time, zero field, random data (some of
\* whose bytes may be zero)
C1Menu ==
    { <<0, 0, 0, 9>> \o z \o r :
        z \in {<<0, 0, 0, 0>>, <<1, 0, 0, 0>>, <<0, 0, 0, 1>>},
        r \in {Fill(1528, 33), Fill(8, 0) \o Fill(1520, 33)} }

\* where the transport may split C1 or C2 into two segments
SplitMenu == {HANDSHAKE_CHUNK_SIZE, 8}

\* C2 as the client builds it from the S1 it received
C2Menu(s1) ==
    { s1,
      [s1 EXCEPT ![2] = (@ + 1) % 256],
      [s1 EXCEPT ![9] = (@ + 1) % 256],
      [s1 EXCEPT ![5] = 1, ![8] = 2] }

\* chunk stream ids and message headers the client uses
ClientCSIds == {3, 4}

\* <<message length, message type id>> of the Type 0 / Type 1 headers: a
\* SetChunkSize message, a short audio message, an audio message longer
\* than one chunk of the default size, and a message with a type id that
\* no message has
OpeningMenu == {<<4, SET_CHUNK_SIZE>>, <<4, AUDIO>>, <<4088, AUDIO>>, <<4, 7>>}

\* payload of n bytes: a big-endian u32 256, then the tag byte
Payload(n, tag) == [i \in 1..n |-> IF i = 3 THEN 1 ELSE IF i <= 4 THEN 0 ELSE tag]

\* a chunk as the client frames it: Type 0 / Type 1 carry the payload the
\* server's chunk size allows, Type 2 / Type 3 carry plen bytes
FrameMenu ==
    [fmt : {0}, csid : ClientCSIds, lt : OpeningMenu, plen : {0}]
      \cup [fmt : {1}, csid : ClientCSIds, lt : {<<4, AUDIO>>}, plen : {0}]
      \cup [fmt : {2, 3}, csid : ClientCSIds, lt : {<<0, 0>>}, plen : {0, 4}]

FrameHeader(f) ==
    <<f.fmt * 64 + f.csid>>
      \o (CASE f.fmt = 0 -> <<0, 0, 0>> \o BE24(f.lt[1]) \o <<f.lt[2]>> \o <<0, 0, 0, 1>>
            [] f.fmt = 1 -> <<0, 0, 0>> \o BE24(f.lt[1]) \o <<f.lt[2]>>
            [] f.fmt = 2 -> <<0, 0, 0>>
            [] OTHER -> <<>>)

FrameBytes(f, tag) ==
    LET h == FrameHeader(f)
        n == IF f.fmt \in {0, 1}
             THEN Min(f.lt[1], NetConnectionNew - Len(h))
             ELSE f.plen
    IN  h \o Payload(n, tag)

-----------------------------------------------------------------------------
(* State after RTMPConnection::new on an accepted socket *)

Init ==
    /\ pc = "read_c0"
    /\ wire = <<>>
    /\ eof = FALSE
    /\ outq = <<>>
    /\ client_buf = <<>>
    /\ server_buf = <<>>
    /\ read_timestamp = <<>>
    /\ total_bytes_read = 0
    /\ chunk_streams = NoStreams
    /\ max_chunk_size = NetConnectionNew
    /\ chunk = <<>>
    /\ ret = NoMessage
    /\ emitted = <<>>
    /\ parsed = NotParsed
    /\ err = ""
    /\ cpc = "c0"
    /\ pending = <<>>
    /\ nsent = 0
    /\ entry = "process"
    /\ listening = TRUE
    /\ conns = <<>>
    /\ input = <<>>
    /\ decoder = <<>>
    /\ decoded = <<>>
    /\ amf_in = <<>>
    /\ parsed_header = <<>>
    /\ hs_sent = <<>>
    /\ written = <<>>

-----------------------------------------------------------------------------------------------------------------------------------------------------
(* Client actions *)

ServerVars == <<pc, err>>
HandshakeVars == <<client_buf, server_buf, read_timestamp, total_bytes_read>>
ChunkVars == <<chunk_streams, max_chunk_size, chunk, ret, emitted, parsed>>

\* the record of the exchange, kept when handshake() is driven on its own
Record(h, bytes) == IF entry = "handshake" THEN h \o bytes ELSE h

\* the version byte the client sends as C0
C0Menu == {RTMP_VERSION, 1, 6, 255}

ClientSendC0 ==
    /\ cpc = "c0"
    /\ ~eof
    /\ pc # "closed"
    /\ \E v \in C0Menu : wire' = wire \o <<v>> /\ hs_sent' = Record(hs_sent, <<v>>)
    /\ cpc' = "c1"
    /\ UNCHANGED <<eof, outq, pending, nsent, entry, listening, conns, input, decoder,
                   decoded, amf_in, parsed_header, written, ServerVars, HandshakeVars,
                   ChunkVars>>

\* C1, whole or its first segment; the rest follows in ClientSendRest
ClientSendC1 ==
    /\ cpc = "c1"
    /\ ~eof
    /\ pc # "closed"
    /\ \E c1 \in C1Menu, k \in SplitMenu :
         /\ wire' = wire \o Take(c1, k)
         /\ pending' = Drop(c1, k)
         /\ hs_sent' = Record(hs_sent, c1)
    /\ cpc' = "wait_s"
    /\ UNCHANGED <<eof, outq, nsent, entry, listening, conns, input, decoder,
                   decoded, amf_in, parsed_header, written, ServerVars, HandshakeVars, ChunkVars>>

\* the second segment of C1 or C2 arrives
ClientSendRest ==
    /\ pending # <<>>
    /\ ~eof
    /\ pc # "closed"
    /\ wire' = wire \o pending
    /\ pending' = <<>>
    /\ UNCHANGED <<eof, outq, cpc, nsent, entry, listening, conns, input, decoder,
                   decoded, amf_in, parsed_header, hs_sent, written, ServerVars, HandshakeVars,
                   ChunkVars>>

\* the client has received S0 and S1 and answers with C2
ClientSendC2 ==
    /\ cpc = "wait_s"
    /\ ~eof
    /\ pc # "closed"
    /\ pending = <<>>
    /\ Len(outq) >= 1 + HANDSHAKE_CHUNK_SIZE
    /\ \E c2 \in C2Menu(SubSeq(outq, 2, 1 + HANDSHAKE_CHUNK_SIZE)), k \in SplitMenu :
         /\ wire' = wire \o Take(c2, k)
         /\ pending' = Drop(c2, k)
         /\ hs_sent' = Record(hs_sent, c2)
    /\ outq' = Drop(outq, 1 + HANDSHAKE_CHUNK_SIZE)
    /\ cpc' = "frames"
    /\ UNCHANGED <<eof, nsent, entry, listening, conns, input, decoder,
                   decoded, amf_in, parsed_header, written, ServerVars, HandshakeVars, ChunkVars>>

\* the client reads S2 off the socket
ClientReadS2 ==
    /\ cpc = "frames"
    /\ pc # "closed"
    /\ outq # <<>>
    /\ outq' = <<>>
    /\ UNCHANGED <<wire, eof, cpc, pending, nsent, entry, listening, conns, input, decoder,
                   decoded, amf_in, parsed_header, hs_sent, written, ServerVars,
                   HandshakeVars, ChunkVars>>

\* the client, having read S2, sends one more chunk; its bytes reach the
\* socket when the server has read what came before and waits for more, or,
\* for the first chunk, right behind C2
ClientSendFrame ==
    /\ cpc = "frames"
    /\ ~eof
    /\ pending = <<>>
    /\ outq = <<>>
    /\ nsent < MaxFrames
    /\ \/ /\ pc = "read_chunk"
          /\ ReadChunkOn(wire, max_chunk_size, TRUE).st \in {"short", "short_payload"}
       \/ /\ pc = "read_c2"
          /\ nsent = 0
    /\ \E f \in FrameMenu :
         /\ wire' = wire \o FrameBytes(f, 5 + nsent)
         /\ hs_sent' = Record(hs_sent, FrameBytes(f, 5 + nsent))
    /\ nsent' = nsent + 1
    /\ UNCHANGED <<eof, outq, cpc, pending, entry, listening, conns, input, decoder,
                   decoded, amf_in, parsed_header, written, ServerVars,
                   HandshakeVars, ChunkVars>>

\* the client closes the socket
ClientClose ==
    /\ ~eof
    /\ pc # "closed"
    /\ eof' = TRUE
    /\ UNCHANGED <<wire, outq, cpc, pending, nsent, entry, listening, conns, input, decoder,
                   decoded, amf_in, parsed_header, hs_sent, written, ServerVars,
                   HandshakeVars, ChunkVars>>

-----------------------------------------------------------------------------
(* rtmp.rs, handshake.rs: the connection task *)

\* an error that is logged while the task goes on to read chunks
CloseIgnored(e) ==
    /\ pc' = "read_chunk"
    /\ err' = e
    /\ chunk_streams' = chunk_streams
    /\ client_buf' = <<>>
    /\ server_buf' = <<>>
    /\ read_timestamp' = <<>>
    /\ total_bytes_read' = 0

\* process() returns Err(e) or panics: the RTMPConnection is dropped
Close(e) ==
    /\ pc' = "closed"
    /\ err' = e
    /\ chunk_streams' = NoStreams
    /\ client_buf' = <<>>
    /\ server_buf' = <<>>
    /\ read_timestamp' = <<>>
    /\ total_bytes_read' = 0

\* read_c0 without the comparison with RTMP_VERSION
ReadC0Unchecked ==
    /\ pc = "read_c0"
    /\ wire # <<>>
    /\ wire' = Tail(wire)
    /\ pc' = "read_c1"
    /\ client_buf' = Fill(HANDSHAKE_CHUNK_SIZE, 0)
    /\ server_buf' = Fill(1 + HANDSHAKE_CHUNK_SIZE, 0)
    /\ UNCHANGED <<err, chunk_streams, read_timestamp, total_bytes_read>>
    /\ UNCHANGED <<eof, outq, cpc, pending, nsent, entry, listening, conns, input, decoder,
                   decoded, amf_in, parsed_header, hs_sent, written, max_chunk_size,
                   chunk, ret, emitted, parsed>>

\* read_c0
ReadC0 ==
    /\ pc = "read_c0"
    /\ IF wire # <<>>
       THEN /\ wire' = Tail(wire)
            /\ IF Head(wire) # RTMP_VERSION
               THEN Close(UnsupportedVersion(Head(wire)))
               ELSE /\ pc' = "read_c1"
                    /\ client_buf' = Fill(HANDSHAKE_CHUNK_SIZE, 0)
                    /\ server_buf' = Fill(1 + HANDSHAKE_CHUNK_SIZE, 0)
                    /\ UNCHANGED <<err, chunk_streams, read_timestamp, total_bytes_read>>
       ELSE /\ eof
            /\ Close(ReadError)
            /\ UNCHANGED wire
    /\ UNCHANGED <<eof, outq, cpc, pending, nsent, entry, listening, conns, input, decoder,
                   decoded, amf_in, parsed_header, hs_sent, written, max_chunk_size,
                   chunk, ret, emitted, parsed>>

\* read_chunk of handshake.rs, one socket.read(buf): the bytes at hand, at
\* most the buffer's length, land at the start of buf
SocketRead(buf, avail) ==
    LET n == Min(Len(avail), Len(buf))
    IN  [n |-> n, buf |-> Take(avail, n) \o Drop(buf, n)]

\* read_c1: one turn of read_chunk's loop, and the check once the loop ends
ReadC1 ==
    /\ pc = "read_c1"
    /\ wire # <<>>
    /\ LET r == SocketRead(client_buf, wire)
           total == total_bytes_read + r.n
       IN  /\ wire' = Drop(wire, r.n)
           /\ IF total < HANDSHAKE_CHUNK_SIZE
              THEN /\ client_buf' = r.buf
                   /\ total_bytes_read' = total
                   /\ UNCHANGED <<pc, err, chunk_streams, server_buf, read_timestamp>>
              ELSE IF \E i \in 5..8 : r.buf[i] # 0
              THEN Close(InvalidHandshake("Zeroes field in handshake must be all zeroes"))
              ELSE \/ /\ client_buf' = r.buf
                      /\ total_bytes_read' = 0
                      /\ \E t \in Timestamps : read_timestamp' = t
                      /\ pc' = "send_s0_s1"
                      /\ UNCHANGED <<err, chunk_streams, server_buf>>
                   \/ Close(ClockError)
    /\ UNCHANGED <<eof, outq, cpc, pending, nsent, entry, listening, conns, input, decoder,
                   decoded, amf_in, parsed_header, hs_sent, written, max_chunk_size,
                   chunk, ret, emitted, parsed>>

\* send_s0_s1: S0 and S1 are written, or the clock fails, or write_all
\* fails on a socket the peer has closed
SendS0S1 ==
    /\ pc = "send_s0_s1"
    /\ \/ /\ \E t \in Timestamps, r \in RandomFills :
               server_buf' = <<RTMP_VERSION>> \o t \o <<0, 0, 0, 0>>
                               \o Fill(HANDSHAKE_CHUNK_SIZE - 8, r)
          /\ outq' = outq \o server_buf'
          /\ written' = Record(written, server_buf')
          /\ pc' = "send_s2"
          /\ UNCHANGED <<err, chunk_streams, client_buf, read_timestamp,
                         total_bytes_read>>
       \/ /\ Close(ClockError)
          /\ UNCHANGED <<outq, written>>
       \/ /\ eof
          /\ Close(WriteError)
          /\ UNCHANGED <<outq, written>>
    /\ UNCHANGED <<wire, eof, cpc, pending, nsent, entry, listening, conns, input, decoder,
                   decoded, amf_in, parsed_header, hs_sent, max_chunk_size, chunk,
                   ret, emitted, parsed>>

\* send_s2: C1 with the read timestamp in bytes [4..8] is written, or
\* write_all fails on a socket the peer has closed
SendS2 ==
    /\ pc = "send_s2"
    /\ \/ /\ client_buf' = Take(client_buf, 4) \o read_timestamp \o Drop(client_buf, 8)
          /\ outq' = outq \o client_buf'
          /\ written' = Record(written, client_buf')
          /\ pc' = "read_c2"
          /\ UNCHANGED <<err, chunk_streams, server_buf, read_timestamp,
                         total_bytes_read>>
       \/ /\ eof
          /\ Close(WriteError)
          /\ UNCHANGED <<outq, written>>
    /\ UNCHANGED <<wire, eof, cpc, pending, nsent, entry, listening, conns, input, decoder,
                   decoded, amf_in, parsed_header, hs_sent, max_chunk_size, chunk,
                   ret, emitted, parsed>>

\* read_c2: one turn of read_chunk's loop, and the checks once the loop ends;
\* handshake() returns Ok ("done" when it was called on its own) and
\* process() starts reading chunks
ReadC2 ==
    /\ pc = "read_c2"
    /\ wire # <<>>
    /\ LET r == SocketRead(client_buf, wire)
           total == total_bytes_read + r.n
           s1 == Tail(server_buf)
       IN  /\ wire' = Drop(wire, r.n)
           /\ IF total < HANDSHAKE_CHUNK_SIZE
              THEN /\ client_buf' = r.buf
                   /\ total_bytes_read' = total
                   /\ UNCHANGED <<pc, err, chunk_streams, server_buf, read_timestamp>>
              ELSE IF Take(r.buf, 4) # Take(s1, 4)
              THEN Close(InvalidHandshake("Echoed timestamp does not match"))
              ELSE IF Drop(r.buf, 8) # Drop(s1, 8)
              THEN Close(InvalidHandshake("Random data echo does not match"))
              ELSE /\ pc' = IF entry = "handshake" THEN "done" ELSE "read_chunk"
                   /\ client_buf' = <<>>
                   /\ server_buf' = <<>>
                   /\ read_timestamp' = <<>>
                   /\ total_bytes_read' = 0
                   /\ UNCHANGED <<err, chunk_streams>>
    /\ UNCHANGED <<eof, outq, cpc, pending, nsent, entry, listening, conns, input, decoder,
                   decoded, amf_in, parsed_header, hs_sent, written, max_chunk_size,
                   chunk, ret, emitted, parsed>>

\* read_chunk's loop in handshake.rs when the peer has closed: socket.read
\* returns Ok(0), the total does not grow and the loop goes round again
ReadSpin ==
    /\ pc \in {"read_c1", "read_c2"}
    /\ wire = <<>>
    /\ eof
    /\ UNCHANGED vars

\* Chunk::read_chunk as process() calls it, with the connection's
\* max_chunk_size; an error ends process()
ReadChunk ==
    /\ pc = "read_chunk"
    /\ \E checks \in BOOLEAN :
         \E r \in {ReadChunkOn(wire, max_chunk_size, checks)} :
         CASE r.st = "ok" ->
                /\ chunk' = r.chunk
                /\ wire' = Drop(wire, r.n)
                /\ pc' = "receive_chunk"
                /\ UNCHANGED <<err, chunk_streams, HandshakeVars>>
           [] r.st = "panic" ->
                /\ Close("panic")
                /\ UNCHANGED <<wire, chunk>>
           [] r.st = "invalid_chunk_type" ->
                /\ Close("BadHeader: InvalidChunkType")
                /\ UNCHANGED <<wire, chunk>>
           [] r.st = "short" ->
                /\ eof
                /\ Close("BadHeader: ReadError")
                /\ UNCHANGED <<wire, chunk>>
           [] r.st = "short_payload" ->
                /\ eof
                /\ Close("MessageReadFailure")
                /\ UNCHANGED <<wire, chunk>>
    /\ UNCHANGED <<eof, outq, cpc, pending, nsent, entry, listening, conns, input, decoder,
                   decoded, amf_in, parsed_header, hs_sent, written, max_chunk_size,
                   ret, emitted, parsed>>

\* a timeout that ends process() and leaves the multiplexer as it is
ReadChunkTimeoutKeeps ==
    /\ pc = "read_chunk"
    /\ ~eof
    /\ ReadHeader(wire, TRUE).st = "short"
    /\ pc' = "closed"
    /\ err' = "Timeout"
    /\ UNCHANGED <<wire, eof, outq, cpc, pending, nsent, entry, listening, conns, input, decoder,
                   decoded, amf_in, parsed_header, hs_sent, written,
                   max_chunk_size, chunk, ret, emitted, parsed, chunk_streams,
                   HandshakeVars>>

\* Chunk::read_chunk: the 30 seconds of the header's timeout pass while the
\* header is still incomplete
ReadChunkTimeout ==
    /\ pc = "read_chunk"
    /\ ~eof
    /\ ReadHeader(wire, TRUE).st = "short"
    /\ Close("Timeout")
    /\ UNCHANGED <<wire, eof, outq, cpc, pending, nsent, entry, listening, conns, input, decoder,
                   decoded, amf_in, parsed_header, hs_sent, written,
                   max_chunk_size, chunk, ret, emitted, parsed>>

\* a returned message as the log of emitted messages keeps it: with the
\* CSId of the chunk that completed it
Emitted(ch, r) ==
    [cs_id |-> HeaderChunkStreamId(ch.header), bytes |-> r.bytes,
     message_type |-> r.message_type]

\* process(): chunk_mux.receive_chunk(chunk)
ReceiveChunk ==
    /\ pc = "receive_chunk"
    /\ LET r == ReceiveChunkOn(chunk_streams, chunk) IN
         /\ chunk_streams' = r.streams
         /\ ret' = r.ret
         /\ emitted' = IF r.ret.some
                        THEN Append(emitted, Emitted(chunk, r.ret))
                        ELSE emitted
         /\ pc' = IF r.ret.some THEN "parse_message" ELSE "read_chunk"
    /\ UNCHANGED <<wire, eof, outq, cpc, pending, nsent, entry, listening, conns, input, decoder,
                   decoded, amf_in, parsed_header, hs_sent, written, err,
                   max_chunk_size, chunk, parsed, HandshakeVars>>

\* process(): Message::parse_message on the completed message; the result is
\* logged and the loop reads the next chunk
ParseMessageStep ==
    /\ pc = "parse_message"
    /\ parsed' = ParseMessage(ret.bytes, ret.message_type)
    /\ pc' = "read_chunk"
    /\ UNCHANGED <<wire, eof, outq, cpc, pending, nsent, entry, listening, conns, input, decoder,
                   decoded, amf_in, parsed_header, hs_sent, written, err,
                   chunk_streams, max_chunk_size, chunk, ret, emitted, HandshakeVars>>

\* the steps of handshake(): the task runs whenever it can, tokio polls a
\* task whose socket is readable, writable or closed
HandshakeStep == ReadC0 \/ ReadC1 \/ SendS0S1 \/ SendS2 \/ ReadC2 \/ ReadSpin

Next ==
    \/ ClientSendC0
    \/ ClientSendC1
    \/ ClientSendRest
    \/ ClientSendC2
    \/ ClientReadS2
    \/ ClientSendFrame
    \/ ClientClose
    \/ ReadC0
    \/ ReadC1
    \/ SendS0S1
    \/ SendS2
    \/ ReadC2
    \/ ReadSpin
    \/ ReadChunk
    \/ ReadChunkTimeout
    \/ ReceiveChunk
    \/ ParseMessageStep

Spec == Init /\ [][Next]_vars

-----------------------------------------------------------------------------
(* process() from the end of a valid handshake on, with a client that      *)
(* sends whole messages: an opening chunk and, for a message longer than   *)
(* the opening chunk's payload, a Type 3 chunk with the rest of its bytes. *)

\* the messages tried: a short one and one longer than the payload of one
\* chunk, opened by a Type 0 or a Type 1 chunk
MessageMenu ==
    [fmt : {0, 1}, csid : ClientCSIds, lt : {<<4, AUDIO>>, <<4092, AUDIO>>}, plen : {0}]

\* the chunks of the message f: the opening chunk with the payload the
\* server's chunk size allows, then a Type 3 chunk with what is left
MessageBytes(f, tag) ==
    LET opening == FrameBytes(f, tag)
        sent == Len(opening) - Len(FrameHeader(f))
    IN  IF sent = f.lt[1] THEN opening
        ELSE opening \o <<3 * 64 + f.csid>> \o Drop(Payload(f.lt[1], tag), sent)

\* the state process() is in when handshake() has returned Ok and the client
\* has read S0, S1 and S2
InitChunks ==
    /\ pc = "read_chunk"
    /\ wire = <<>>
    /\ eof = FALSE
    /\ outq = <<>>
    /\ client_buf = <<>>
    /\ server_buf = <<>>
    /\ read_timestamp = <<>>
    /\ total_bytes_read = 0
    /\ chunk_streams = NoStreams
    /\ max_chunk_size = NetConnectionNew
    /\ chunk = <<>>
    /\ ret = NoMessage
    /\ emitted = <<>>
    /\ parsed = NotParsed
    /\ err = ""
    /\ cpc = "frames"
    /\ pending = <<>>
    /\ nsent = 0
    /\ entry = "process"
    /\ listening = TRUE
    /\ conns = <<>>
    /\ input = <<>>
    /\ decoder = <<>>
    /\ decoded = <<>>
    /\ amf_in = <<>>
    /\ parsed_header = <<>>
    /\ hs_sent = <<>>
    /\ written = <<>>

\* the client sends one more message, all its chunks at once, when the
\* server has read what came before and waits for more
ClientSendMessage ==
    /\ cpc = "frames"
    /\ ~eof
    /\ nsent < MaxFrames
    /\ pc = "read_chunk"
    /\ ReadChunkOn(wire, max_chunk_size, TRUE).st \in {"short", "short_payload"}
    /\ \E f \in MessageMenu : wire' = wire \o MessageBytes(f, 5 + nsent)
    /\ nsent' = nsent + 1
    /\ UNCHANGED <<eof, outq, cpc, pending, entry, listening, conns, input, decoder,
                   decoded, amf_in, parsed_header, hs_sent, written, ServerVars,
                   HandshakeVars, ChunkVars>>

\* the steps of process() once the handshake is done: the task runs whenever
\* it can, tokio polls a task whose socket is readable or closed or whose
\* timer has fired
ChunkStep == ReadChunk \/ ReadChunkTimeout \/ ReceiveChunk \/ ParseMessageStep

NextChunks ==
    \/ ClientSendMessage
    \/ ClientClose
    \/ ReadChunk
    \/ ReadChunkTimeout
    \/ ReceiveChunk
    \/ ParseMessageStep

FairSpecChunks == InitChunks /\ [][NextChunks]_vars /\ WF_vars(ChunkStep)

-----------------------------------------------------------------------------
(* handshake() on its own, as the tests of handshake.rs call it on an      *)
(* accepted socket; the exchange is recorded.                              *)

InitHandshake ==
    /\ pc = "read_c0"
    /\ wire = <<>>
    /\ eof = FALSE
    /\ outq = <<>>
    /\ client_buf = <<>>
    /\ server_buf = <<>>
    /\ read_timestamp = <<>>
    /\ total_bytes_read = 0
    /\ chunk_streams = NoStreams
    /\ max_chunk_size = NetConnectionNew
    /\ chunk = <<>>
    /\ ret = NoMessage
    /\ emitted = <<>>
    /\ parsed = NotParsed
    /\ err = ""
    /\ cpc = "c0"
    /\ pending = <<>>
    /\ nsent = 0
    /\ entry = "handshake"
    /\ listening = TRUE
    /\ conns = <<>>
    /\ input = <<>>
    /\ decoder = <<>>
    /\ decoded = <<>>
    /\ amf_in = <<>>
    /\ parsed_header = <<>>
    /\ hs_sent = <<>>
    /\ written = <<>>

NextHandshake ==
    \/ ClientSendC0
    \/ ClientSendC1
    \/ ClientSendRest
    \/ ClientSendC2
    \/ ClientReadS2
    \/ ClientSendFrame
    \/ ClientClose
    \/ ReadC0
    \/ ReadC1
    \/ SendS0S1
    \/ SendS2
    \/ ReadC2
    \/ ReadSpin

SpecHandshake == InitHandshake /\ [][NextHandshake]_vars

FairSpecHandshake == SpecHandshake /\ WF_vars(HandshakeStep)

-----------------------------------------------------------------------------
(* A ChunkMultiplexer on its own: receive_chunk is public and takes any    *)
(* Chunk, whatever its header and payload.                                 *)

\* a ChunkHeader of chunk type fmt as read_header builds it
MkHeader(fmt, csid, length, type_id) ==
    [chunk_type |-> fmt,
     chunk_stream_id |-> csid,
     timestamp |-> IF fmt = 3 THEN None ELSE 0,
     message_length |-> IF fmt \in {0, 1} THEN length ELSE None,
     message_type_id |-> IF fmt \in {0, 1} THEN type_id ELSE None,
     message_stream_id |-> IF fmt = 0 THEN U32(1) ELSE NoU32,
     extended_timestamp |-> NoU32,
     basic_len |-> 1,
     message_len |-> CASE fmt = 0 -> 11 [] fmt = 1 -> 7 [] fmt = 2 -> 3 [] OTHER -> 0]

MuxHeaders ==
    { MkHeader(o[1], c, o[2], o[3]) :
        o \in {<<0, 2, AUDIO>>, <<1, 3, VIDEO>>, <<2, 0, 0>>, <<3, 0, 0>>},
        c \in ClientCSIds }

\* the payload of the k-th chunk fed: n bytes that name the chunk and their place
MuxPayload(k, n) == [i \in 1..n |-> 10 * k + i]

MuxPayloadLens == 0..2

InitMux ==
    /\ pc = "mux"
    /\ wire = <<>>
    /\ eof = FALSE
    /\ outq = <<>>
    /\ client_buf = <<>>
    /\ server_buf = <<>>
    /\ read_timestamp = <<>>
    /\ total_bytes_read = 0
    /\ chunk_streams = NoStreams
    /\ max_chunk_size = NetConnectionNew
    /\ chunk = <<>>
    /\ ret = NoMessage
    /\ emitted = <<>>
    /\ parsed = NotParsed
    /\ err = ""
    /\ cpc = "mux"
    /\ pending = <<>>
    /\ nsent = 0
    /\ entry = "receive_chunk"
    /\ listening = TRUE
    /\ conns = <<>>
    /\ input = <<>>
    /\ decoder = <<>>
    /\ decoded = <<>>
    /\ amf_in = <<>>
    /\ parsed_header = <<>>
    /\ hs_sent = <<>>
    /\ written = <<>>

\* receive_chunk(ch) for any chunk ch
MuxReceive ==
    /\ pc = "mux"
    /\ nsent < MaxChunks
    /\ \E h \in MuxHeaders, n \in MuxPayloadLens :
         LET ch == [header |-> h, payload |-> MuxPayload(nsent + 1, n)]
             r == ReceiveChunkOn(chunk_streams, ch)
         IN
         /\ chunk' = ch
         /\ chunk_streams' = r.streams
         /\ ret' = r.ret
         /\ emitted' = IF r.ret.some THEN Append(emitted, Emitted(ch, r.ret)) ELSE emitted
    /\ nsent' = nsent + 1
    /\ UNCHANGED <<pc, err, wire, eof, outq, cpc, pending, entry, listening, conns, input, decoder,
                   decoded, amf_in, parsed_header, hs_sent, written,
                   max_chunk_size, parsed, HandshakeVars>>

NextMux == MuxReceive

SpecMux == InitMux /\ [][NextMux]_vars

-----------------------------------------------------------------------------
(* RTMPSever::run: the accept loop and the connection tasks it spawns. A   *)
(* connection is taken by the outcome of its handshake and by the chunks   *)
(* its multiplexer receives.                                               *)

ConnIds == 1..MaxConns

\* RTMPConnection::new on an accepted socket
NewConn ==
    [pc |-> "handshake", err |-> "", chunk_streams |-> NoStreams,
     max_chunk_size |-> NetConnectionNew, nrecv |-> 0]

\* the errors process() may return with, or a panic of the task
HandshakeErrors ==
    {UnsupportedVersion(1), InvalidHandshake("Zeroes field in handshake must be all zeroes")}

ChunkErrors == {"Timeout", "BadHeader: ReadError", "panic"}

\* the chunks a connection may receive
ConnHeaders == {MkHeader(0, 3, 2, AUDIO), MkHeader(3, 3, 0, 0), MkHeader(0, 4, 2, AUDIO)}

\* an error that takes down every connection task with it
CloseConnAll(cs, i, e) ==
    [j \in DOMAIN cs |->
        [cs[j] EXCEPT !.pc = "closed", !.err = e, !.chunk_streams = NoStreams]]

\* handle_rtmp_connection: process() of connection i returned Err(e) (or its
\* task panicked); the error is logged and the RTMPConnection dropped
CloseConn(cs, i, e) ==
    [cs EXCEPT ![i] = [@ EXCEPT !.pc = "closed", !.err = e,
                                !.chunk_streams = NoStreams]]

InitServer ==
    /\ pc = "run"
    /\ wire = <<>>
    /\ eof = FALSE
    /\ outq = <<>>
    /\ client_buf = <<>>
    /\ server_buf = <<>>
    /\ read_timestamp = <<>>
    /\ total_bytes_read = 0
    /\ chunk_streams = NoStreams
    /\ max_chunk_size = NetConnectionNew
    /\ chunk = <<>>
    /\ ret = NoMessage
    /\ emitted = <<>>
    /\ parsed = NotParsed
    /\ err = ""
    /\ cpc = "run"
    /\ pending = <<>>
    /\ nsent = 0
    /\ entry = "run"
    /\ listening = TRUE
    /\ conns = <<>>
    /\ input = <<>>
    /\ decoder = <<>>
    /\ decoded = <<>>
    /\ amf_in = <<>>
    /\ parsed_header = <<>>
    /\ hs_sent = <<>>
    /\ written = <<>>

ConnectionVars ==
    <<pc, wire, eof, outq, client_buf, server_buf, read_timestamp, total_bytes_read,
      chunk_streams, max_chunk_size, chunk, ret, emitted, parsed, err, cpc, pending,
      nsent, entry, input, decoder, decoded, amf_in, parsed_header, hs_sent, written>>

\* the single-connection state but err, which holds the error run() returned
ConnectionVarsButErr ==
    <<pc, wire, eof, outq, client_buf, server_buf, read_timestamp, total_bytes_read,
      chunk_streams, max_chunk_size, chunk, ret, emitted, parsed, cpc, pending,
      nsent, entry, input, decoder, decoded, amf_in, parsed_header, hs_sent, written>>

\* the io::Error kinds accept() may fail with: a connection the peer aborted
\* while it waited in the backlog, or the process being out of descriptors
TransientAcceptErrors == {"ConnectionAborted"}

AcceptErrors == TransientAcceptErrors \cup {"Other"}

\* a listener that handles a connection to its end before it accepts again
AcceptSerial ==
    /\ entry = "run"
    /\ listening
    /\ Len(conns) < MaxConns
    /\ \A i \in DOMAIN conns : conns[i].pc = "closed"
    /\ conns' = Append(conns, NewConn)
    /\ UNCHANGED <<listening, ConnectionVars>>

\* run(): listener.accept() returns a socket and a task is spawned for it
Accept ==
    /\ entry = "run"
    /\ listening
    /\ Len(conns) < MaxConns
    /\ conns' = Append(conns, NewConn)
    /\ UNCHANGED <<listening, ConnectionVars>>

\* run(): listener.accept() returns an error, run() returns it and main()
\* ends: the runtime is dropped and with it every task
AcceptError ==
    /\ entry = "run"
    /\ listening
    /\ \E e \in AcceptErrors : err' = e
    /\ listening' = FALSE
    /\ conns' = [j \in DOMAIN conns |->
                   [conns[j] EXCEPT !.pc = "cancelled", !.chunk_streams = NoStreams]]
    /\ UNCHANGED ConnectionVarsButErr

\* process() of connection i: handshake() returns Ok or an error
ConnHandshake ==
    /\ entry = "run"
    /\ \E i \in DOMAIN conns :
         /\ conns[i].pc = "handshake"
         /\ \/ conns' = [conns EXCEPT ![i].pc = "read_chunk"]
            \/ \E e \in HandshakeErrors : conns' = CloseConn(conns, i, e)
    /\ UNCHANGED <<listening, ConnectionVars>>

\* process() of connection i: a chunk is read and given to receive_chunk
ConnReceive ==
    /\ entry = "run"
    /\ \E i \in DOMAIN conns, h \in ConnHeaders :
         /\ conns[i].pc = "read_chunk"
         /\ conns[i].nrecv < MaxConnChunks
         /\ LET ch == [header |-> h, payload |-> MuxPayload(conns[i].nrecv + 1, 1)]
                r == ReceiveChunkOn(conns[i].chunk_streams, ch)
            IN  conns' = [conns EXCEPT ![i].chunk_streams = r.streams,
                                       ![i].nrecv = @ + 1]
    /\ UNCHANGED <<listening, ConnectionVars>>

\* process() of connection i: read_chunk returns an error or panics
ConnError ==
    /\ entry = "run"
    /\ \E i \in DOMAIN conns, e \in ChunkErrors :
         /\ conns[i].pc = "read_chunk"
         /\ conns' = CloseConn(conns, i, e)
    /\ UNCHANGED <<listening, ConnectionVars>>

NextServer ==
    \/ Accept
    \/ AcceptError
    \/ ConnHandshake
    \/ ConnReceive
    \/ ConnError

SpecServer == InitServer /\ [][NextServer]_vars

-----------------------------------------------------------------------------
(* Message::parse_message called on its own, on a payload and a message    *)
(* type id.                                                                *)

\* the message type ids tried: every id up to 23, and the largest u8
TypeIdMenu == 0..23 \cup {255}

\* payloads of every length up to 7, all bytes different
BufMenu ==
    {<<>>, <<0, 0, 16>>, <<0, 0, 16, 0>>, <<0, 0, 16, 0, 7>>,
     <<0, 0, 16, 0, 7, 2>>, <<0, 0, 16, 0, 7, 2, 1>>}

\* user-control payloads: every event type up to 7 on stream 5, with and
\* without four more bytes (1000 ms), and one cut short
UserControlBufs ==
    {<<0, e, 0, 0, 0, 5>> \o t : e \in 0..7, t \in {<<>>, <<0, 0, 3, 232>>}}
        \cup {<<0, 3, 0, 0>>}

\* a value of the type a parse_* function asks for
ValueOf(type) ==
    CASE type = "String" -> AMFString(<<97>>)
      [] type = "Number" -> AMFNumber(<<64, 0, 0, 0, 0, 0, 0, 0>>)
      [] type = "Boolean" -> AMFBoolean(TRUE)
      [] OTHER -> AMFObject(<<>>)

\* the command names tried: those of NetStream, "connect", "close",
\* "createStream", and "foo" that no namespace knows
CommandNames ==
    NetStreamNames \cup {<<99, 111, 110, 110, 101, 99, 116>>, <<99, 108, 111, 115, 101>>,
                         <<99, 114, 101, 97, 116, 101, 83, 116, 114, 101, 97, 109>>,
                         <<102, 111, 111>>}

\* the values behind the command object: none, those the command takes, or
\* a null
ArgsMenu(name) ==
    {<<>>, <<AMFNull>>} \cup
        {[i \in 1..Len(verb.types) |-> ValueOf(verb.types[i])] :
            verb \in {w \in NetStreamVerbs : w.name = name}}

\* AMF0 command payloads: name, transaction id 2.0, a null or an empty
\* object as command object, and the values behind it; and two payloads
\* that are no command
CommandBufs ==
    {EncodeAll(<<AMFString(name), AMFNumber(<<64, 0, 0, 0, 0, 0, 0, 0>>), object>> \o args) :
        name \in CommandNames, object \in {AMFNull, AMFObject(<<>>)},
        args \in UNION {ArgsMenu(n) : n \in CommandNames}}
        \cup {<<>>, <<NULL>>}

ParseInputs ==
    {[buf |-> b, message_type_id |-> t] : b \in BufMenu, t \in TypeIdMenu}
        \cup {[buf |-> b, message_type_id |-> USER_CONTROL_TYPE] : b \in UserControlBufs}
        \cup {[buf |-> b, message_type_id |-> COMMAND_AMF0] : b \in CommandBufs}

InitParse ==
    /\ pc = "parse_message"
    /\ wire = <<>>
    /\ eof = FALSE
    /\ outq = <<>>
    /\ client_buf = <<>>
    /\ server_buf = <<>>
    /\ read_timestamp = <<>>
    /\ total_bytes_read = 0
    /\ chunk_streams = NoStreams
    /\ max_chunk_size = NetConnectionNew
    /\ chunk = <<>>
    /\ ret = NoMessage
    /\ emitted = <<>>
    /\ parsed = NotParsed
    /\ err = ""
    /\ cpc = "parse_message"
    /\ pending = <<>>
    /\ nsent = 0
    /\ entry = "parse_message"
    /\ listening = TRUE
    /\ conns = <<>>
    /\ input \in ParseInputs
    /\ decoder = <<>>
    /\ decoded = <<>>
    /\ amf_in = <<>>
    /\ parsed_header = <<>>
    /\ hs_sent = <<>>
    /\ written = <<>>

\* Message::parse_message(buf, message_type_id)
ParseCall ==
    /\ entry = "parse_message"
    /\ pc = "parse_message"
    /\ parsed' = ParseMessage(input.buf, input.message_type_id)
    /\ pc' = "done"
    /\ UNCHANGED <<wire, eof, outq, client_buf, server_buf, read_timestamp,
                   total_bytes_read, chunk_streams, max_chunk_size, chunk, ret,
                   emitted, err, cpc, pending, nsent, entry, listening, conns,
                   input, decoder, decoded, amf_in, parsed_header, hs_sent, written>>

NextParse == ParseCall

SpecParse == InitParse /\ [][NextParse]_vars

-----------------------------------------------------------------------------
(* amf::Decoder called on its own, as the tests of amf.rs call it: on a    *)
(* buffer that holds the encodings of some values, one decode() after the  *)
(* other.                                                                  *)

\* the values tried: 2.0, both booleans, "a", "", null, the empty object, an
\* object with the property k, an object within an object
ValueMenu ==
    {AMFNumber(<<64, 0, 0, 0, 0, 0, 0, 0>>), AMFBoolean(TRUE), AMFBoolean(FALSE),
     AMFString(<<97>>), AMFString(<<>>), AMFNull, AMFObject(<<>>),
     AMFObject(<< <<(<<107>>), AMFNull>> >>),
     AMFObject(<< <<(<<111>>), AMFObject(<<>>)>> >>)}

\* the bodies tried behind a boolean marker: those of the tests (0x00, 0x01)
\* and two other non-zero bytes
BoolBodies == {0, 1, 2, 255}

InitDecode ==
    /\ pc = "decode"
    /\ wire = <<>>
    /\ eof = FALSE
    /\ outq = <<>>
    /\ client_buf = <<>>
    /\ server_buf = <<>>
    /\ read_timestamp = <<>>
    /\ total_bytes_read = 0
    /\ chunk_streams = NoStreams
    /\ max_chunk_size = NetConnectionNew
    /\ chunk = <<>>
    /\ ret = NoMessage
    /\ emitted = <<>>
    /\ parsed = NotParsed
    /\ err = ""
    /\ cpc = "decode"
    /\ pending = <<>>
    /\ nsent = 0
    /\ entry = "decode"
    /\ listening = TRUE
    /\ conns = <<>>
    /\ input = <<>>
    /\ amf_in \in UNION {[1..n -> ValueMenu] : n \in 1..MaxValues}
    /\ parsed_header = <<>>
    /\ \/ decoder = [buf |-> EncodeAll(amf_in), position |-> 0]
       \/ \E b \in BoolBodies :
              /\ amf_in = <<AMFBoolean(b # 0)>>
              /\ decoder = [buf |-> <<BOOL, b>>, position |-> 0]
    /\ decoded = <<>>
    /\ hs_sent = <<>>
    /\ written = <<>>

\* decoder.decode(), once for each value while no call has failed
DecodeCall ==
    /\ entry = "decode"
    /\ pc = "decode"
    /\ LET r == Decode(decoder.buf, decoder.position) IN
         /\ decoded' = Append(decoded, r)
         /\ decoder' = [decoder EXCEPT !.position = r.position]
         /\ pc' = IF r.ok /\ Len(decoded) + 1 < Len(amf_in) THEN "decode" ELSE "done"
    /\ UNCHANGED <<wire, eof, outq, client_buf, server_buf, read_timestamp,
                   total_bytes_read, chunk_streams, max_chunk_size, chunk, ret,
                   emitted, parsed, err, cpc, pending, nsent, entry, listening, conns,
                   input, amf_in, parsed_header, hs_sent, written>>

NextDecode == DecodeCall

SpecDecode == InitDecode /\ [][NextDecode]_vars

-----------------------------------------------------------------------------
(* ChunkHeader::read_header called on its own, as the tests of             *)
(* chunks/header.rs call it: on a buffer that holds one chunk header.      *)

\* the basic headers tried: each chunk type in the 1-byte form (chunk stream
\* ids 2, 3 and 63), the 2-byte form and the 3-byte form, the bytes behind
\* the first at both ends of their range
BasicHeaderMenu ==
    UNION {{<<fmt * 64 + low>> : low \in {2, 3, 63}}
             \cup {<<fmt * 64, byte2>> : byte2 \in {0, 45, 192, 255}}
             \cup {<<fmt * 64 + 1, byte2, byte3>> :
                      byte2 \in {0, 45, 192, 255}, byte3 \in {0, 1, 255}}
           : fmt \in 0..3}

\* the bytes tried behind the basic header: the message header of
\* test_parse_message_header_type0 but for a timestamp of three different
\* bytes, and one whose message stream id reads the same from both ends
MessageHeaderMenu ==
    {<<18, 52, 86, 17, 34, 51, 205, 16, 171, 205, 239>>,
     <<0, 0, 1, 0, 0, 4, 8, 5, 0, 0, 5>>}

InitHeader ==
    /\ pc = "read_header"
    /\ wire = <<>>
    /\ eof = FALSE
    /\ outq = <<>>
    /\ client_buf = <<>>
    /\ server_buf = <<>>
    /\ read_timestamp = <<>>
    /\ total_bytes_read = 0
    /\ chunk_streams = NoStreams
    /\ max_chunk_size = NetConnectionNew
    /\ chunk = <<>>
    /\ ret = NoMessage
    /\ emitted = <<>>
    /\ parsed = NotParsed
    /\ err = ""
    /\ cpc = "read_header"
    /\ pending = <<>>
    /\ nsent = 0
    /\ entry = "read_header"
    /\ listening = TRUE
    /\ conns = <<>>
    /\ \E bh \in BasicHeaderMenu, mh \in MessageHeaderMenu : input = bh \o mh
    /\ decoder = <<>>
    /\ decoded = <<>>
    /\ amf_in = <<>>
    /\ parsed_header = <<>>
    /\ hs_sent = <<>>
    /\ written = <<>>

\* ChunkHeader::read_header(reader) on the bytes of input, in a build with
\* or without overflow checks
ReadHeaderCall ==
    /\ entry = "read_header"
    /\ pc = "read_header"
    /\ \E checks \in BOOLEAN : parsed_header' = ReadHeader(input, checks)
    /\ pc' = "done"
    /\ UNCHANGED <<wire, eof, outq, client_buf, server_buf, read_timestamp,
                   total_bytes_read, chunk_streams, max_chunk_size, chunk, ret,
                   emitted, parsed, err, cpc, pending, nsent, entry, listening,
                   conns, input, decoder, decoded, amf_in, hs_sent, written>>

NextHeader == ReadHeaderCall

SpecHeader == InitHeader /\ [][NextHeader]_vars

-----------------------------------------------------------------------------
(* Properties *)

\* a step in which receive_chunk runs, and the chunk it is given
ReceiveStep ==
    \/ pc = "mux" /\ nsent' # nsent
    \/ pc = "receive_chunk" /\ pc' # "receive_chunk"

FedChunk == IF pc = "mux" THEN chunk' ELSE chunk

FedCSId == HeaderChunkStreamId(FedChunk.header)

\* the chunk opens a message: no Partial for its CSId, and it carries a
\* message length and a message type id
Opens == /\ FedCSId \notin DOMAIN chunk_streams
         /\ GetMessageLength(FedChunk.header) # None
         /\ GetMessageType(FedChunk.header) # None

\* what the message of the chunk's CSId has accumulated with this chunk, and
\* the length and type id its opening chunk declared
Accumulated ==
    IF FedCSId \in DOMAIN chunk_streams
    THEN chunk_streams[FedCSId].bytes \o FedChunk.payload
    ELSE FedChunk.payload

Declared ==
    IF FedCSId \in DOMAIN chunk_streams
    THEN chunk_streams[FedCSId].length
    ELSE GetMessageLength(FedChunk.header)

OpeningType ==
    IF FedCSId \in DOMAIN chunk_streams
    THEN chunk_streams[FedCSId].message_type
    ELSE GetMessageType(FedChunk.header)

\* C1: for the chunks of one CSId from an opening chunk on (no Partial, a
\* message length L and a type id), receive_chunk returns nothing while the
\* payloads accumulated in arrival order are not L bytes long, keeping them
\* with the opening chunk's L and type id, and on the chunk that reaches L it
\* returns exactly their in-order concatenation with the opening type id.
C1_ReassemblesInOrder ==
    [][ReceiveStep /\ (Opens \/ FedCSId \in DOMAIN chunk_streams) =>
         IF Len(Accumulated) = Declared
         THEN ret' = [some |-> TRUE, bytes |-> Accumulated,
                      message_type |-> OpeningType]
         ELSE /\ ret' = NoMessage
              /\ FedCSId \in DOMAIN chunk_streams'
              /\ chunk_streams'[FedCSId] =
                   [length |-> Declared, message_type |-> OpeningType,
                    bytes |-> Accumulated]]_vars

\* a message of three bytes has been returned, put together from several chunks
C1_Witness ==
    /\ pc = "mux"
    /\ ret.some
    /\ Len(ret.bytes) = 3
    /\ ret.bytes[1] \div 10 # ret.bytes[3] \div 10

\* the positions of process() and handshake() before handshake() has returned
HandshakePcs == {"read_c0", "read_c1", "send_s0_s1", "send_s2", "read_c2"}

\* the states of the connection engine
Phase(p) ==
    CASE p \in HandshakePcs -> "NEW"
      [] p \in {"read_chunk", "receive_chunk"} -> "READING_CHUNKS"
      [] p = "parse_message" -> "APPLY_MESSAGE"
      [] OTHER -> "CLOSED"

\* C2: before handshake() has returned success no chunk is read and no message
\* parsed; the handshake ends either in success, from its last step, or with
\* the connection CLOSED and no chunk read; after it the connection only goes
\* between reading chunks and applying a completed message until an error
\* closes it.
C2_Lifecycle ==
    [][/\ Phase(pc') = "NEW" =>
            chunk' = <<>> /\ emitted' = <<>> /\ parsed' = NotParsed
       /\ \/ pc' = pc
          \/ <<Phase(pc), Phase(pc')>> \in
               {<<"NEW", "NEW">>, <<"NEW", "READING_CHUNKS">>, <<"NEW", "CLOSED">>,
                <<"READING_CHUNKS", "READING_CHUNKS">>,
                <<"READING_CHUNKS", "APPLY_MESSAGE">>,
                <<"READING_CHUNKS", "CLOSED">>,
                <<"APPLY_MESSAGE", "READING_CHUNKS">>}
       /\ Phase(pc) = "NEW" /\ Phase(pc') = "READING_CHUNKS" =>
            pc = "read_c2" /\ pc' = "read_chunk" /\ err' = ""
       /\ Phase(pc) = "NEW" /\ Phase(pc') = "CLOSED" =>
            chunk' = <<>> /\ err' # ""
       /\ Phase(pc) = "APPLY_MESSAGE" => ret.some
       /\ Phase(pc') = "CLOSED" /\ Phase(pc) # "CLOSED" => err' # ""]_vars

\* after a successful handshake a completed message has been applied and the
\* connection reads chunks again
C2_Witness ==
    /\ pc = "read_chunk"
    /\ parsed # NotParsed
    /\ Len(emitted) >= 1

\* C3: once a SetChunkSize(n) message has been applied, the connection's
\* max_chunk_size, which the next read_chunk is called with, is n.
C3_SetChunkSizeApplied ==
    (pc = "read_chunk" /\ parsed.ok /\ parsed.kind = "SetChunkSize")
        => U32(max_chunk_size) = parsed.data

\* C4: max_chunk_size is at least 128, and it is 128 as long as no
\* SetChunkSize message has been observed.
C4_DefaultChunkSize ==
    /\ max_chunk_size >= 128
    /\ (\A i \in 1..Len(emitted) : emitted[i].message_type # SET_CHUNK_SIZE)
         => max_chunk_size = 128

\* C5: no Partial holds more bytes than its declared length.
C5_PartialWithinLength ==
    \A c \in DOMAIN chunk_streams :
        Len(chunk_streams[c].bytes) <= chunk_streams[c].length

\* C6: a chunk whose payload takes its Partial beyond the declared length is
\* rejected: receive_chunk emits nothing and the connection is closed.
C6_OverflowCloses ==
    [][ReceiveStep /\ FedCSId \in DOMAIN chunk_streams
         /\ Len(Accumulated) > Declared
       => ret' = NoMessage /\ pc' = "closed"]_vars

\* C7: receive_chunk for a chunk of one CSId leaves the Partial of every
\* other CSId as it was.
C7_OtherStreamsUnchanged ==
    [][ReceiveStep =>
         \A b \in (DOMAIN chunk_streams \cup DOMAIN chunk_streams') \ {FedCSId} :
            /\ b \in DOMAIN chunk_streams
            /\ b \in DOMAIN chunk_streams'
            /\ chunk_streams'[b] = chunk_streams[b]]_vars

\* a chunk has been received on one CSId while another CSId had a Partial
\* open, and both have bytes now
C7_Witness ==
    /\ pc = "mux"
    /\ nsent >= 3
    /\ Cardinality(DOMAIN chunk_streams) = 2
    /\ \A c \in DOMAIN chunk_streams : Len(chunk_streams[c].bytes) >= 1

\* C8: of two messages of one CSId the one whose chunks arrived first is
\* emitted first, and all of its bytes come from chunks that arrived before
\* those of the later one (a payload byte 10 * k + i is byte i of the k-th
\* chunk fed).
C8_MessagesInArrivalOrder ==
    \A i, j \in 1..Len(emitted) :
        (i < j /\ emitted[i].cs_id = emitted[j].cs_id) =>
            \A a \in 1..Len(emitted[i].bytes), b \in 1..Len(emitted[j].bytes) :
                emitted[i].bytes[a] < emitted[j].bytes[b]

\* two messages of two chunks each have been emitted on one CSId
C8_Witness ==
    /\ pc = "mux"
    /\ Len(emitted) = 2
    /\ emitted[1].cs_id = emitted[2].cs_id
    /\ \A i \in 1..2 : /\ Len(emitted[i].bytes) = 2
                       /\ emitted[i].bytes[1] \div 10 # emitted[i].bytes[2] \div 10

\* C9: a chunk without a message length or type id (Type 2, Type 3) on a CSId
\* that has no Partial makes receive_chunk return nothing and leave the
\* multiplexer as it was.
C9_HeaderlessChunkDropped ==
    [][ReceiveStep /\ FedCSId \notin DOMAIN chunk_streams
         /\ (GetMessageLength(FedChunk.header) = None
               \/ GetMessageType(FedChunk.header) = None)
       => ret' = NoMessage /\ chunk_streams' = chunk_streams]_vars

\* a Type 2 or Type 3 chunk with a payload was the first chunk received
C9_Witness ==
    /\ pc = "mux"
    /\ nsent = 1
    /\ chunk.header.chunk_type \in {2, 3}
    /\ Len(chunk.payload) >= 1
    /\ chunk_streams = NoStreams

\* C10: the payload read_chunk has read is min(max_chunk_size - header
\* length, declared message length) bytes long, the declared length of a
\* Type 2 or Type 3 chunk being that of the Partial open on its CSId.
C10_PayloadLength ==
    pc = "receive_chunk" =>
        LET cs_id == HeaderChunkStreamId(chunk.header)
            own == GetMessageLength(chunk.header)
        IN  (own # None \/ cs_id \in DOMAIN chunk_streams) =>
                Len(chunk.payload) =
                    Min(max_chunk_size - HeaderLen(chunk.header),
                        IF own # None THEN own ELSE chunk_streams[cs_id].length)

\* the Partial open on the CSId of the chunk read_chunk has returned, the
\* length its message declares and the bytes it has so far
ChunkOpen == HeaderChunkStreamId(chunk.header) \in DOMAIN chunk_streams

ChunkDeclared ==
    IF ChunkOpen THEN chunk_streams[HeaderChunkStreamId(chunk.header)].length
    ELSE GetMessageLength(chunk.header)

ChunkGot ==
    IF ChunkOpen THEN Len(chunk_streams[HeaderChunkStreamId(chunk.header)].bytes)
    ELSE 0

\* C11: a message of L bytes is completed after ceil(L / M) chunks, M the
\* max_chunk_size, every chunk but the last carrying M payload bytes: each
\* chunk read for a message carries min(M, bytes the message still lacks).
C11_ChunkCount ==
    (pc = "receive_chunk" /\ ChunkDeclared # None /\ ChunkDeclared >= ChunkGot)
        => Len(chunk.payload) = Min(max_chunk_size, ChunkDeclared - ChunkGot)

-----------------------------------------------------------------------------
(* Properties of handshake() *)

\* the messages of the exchange, as the client sent and the server wrote them
SentC0 == hs_sent[1]

SentC1 == SubSeq(hs_sent, 2, 1 + HANDSHAKE_CHUNK_SIZE)

SentC2 == SubSeq(hs_sent, 2 + HANDSHAKE_CHUNK_SIZE, 1 + 2 * HANDSHAKE_CHUNK_SIZE)

WrittenS0 == written[1]

WrittenS1 == SubSeq(written, 2, 1 + HANDSHAKE_CHUNK_SIZE)

WrittenS2 == SubSeq(written, 2 + HANDSHAKE_CHUNK_SIZE, 1 + 2 * HANDSHAKE_CHUNK_SIZE)

\* the number of bytes the server has taken from the socket
Consumed == Len(hs_sent) - Len(pending) - Len(wire)

\* bytes [4..8] of a 1536-byte handshake message are zero
ZeroField(m) == \A i \in 5..8 : m[i] = 0

\* handshake() has ended with an error that is not an I/O or clock failure
Rejected ==
    /\ pc = "closed"
    /\ err \notin {"Failed to read from socket", "Failed to write to socket",
                    "Invalid handshake: Could not generate timestamp for handshake, clock may have gone backwards"}

\* C12: handshake() returns Ok exactly when C0 is 3, bytes [4..8] of C1 are
\* zero and C2 equals S1 on bytes [0..4] and [8..1536] (it rejects only an
\* exchange that breaks one of these); S0 = 3, a 1536-byte S1 with zero
\* bytes [4..8] and a 1536-byte S2 have then been written.
C12_HandshakeOkExactly ==
    /\ pc = "done" =>
          /\ Len(hs_sent) >= 1 + 2 * HANDSHAKE_CHUNK_SIZE
          /\ SentC0 = 3
          /\ ZeroField(SentC1)
          /\ Take(SentC2, 4) = Take(WrittenS1, 4)
          /\ Drop(SentC2, 8) = Drop(WrittenS1, 8)
          /\ Len(written) = 1 + 2 * HANDSHAKE_CHUNK_SIZE
          /\ WrittenS0 = 3
          /\ ZeroField(WrittenS1)
    /\ Rejected =>
          \/ Len(hs_sent) >= 1 /\ SentC0 # 3
          \/ Len(hs_sent) >= 1 + HANDSHAKE_CHUNK_SIZE /\ ~ZeroField(SentC1)
          \/ /\ Len(hs_sent) >= 1 + 2 * HANDSHAKE_CHUNK_SIZE
             /\ Len(written) >= 1 + HANDSHAKE_CHUNK_SIZE
             /\ \/ Take(SentC2, 4) # Take(WrittenS1, 4)
                \/ Drop(SentC2, 8) # Drop(WrittenS1, 8)

C14_UnsupportedVersion ==
    (entry = "handshake" /\ Len(hs_sent) >= 1 /\ SentC0 # 3 /\ pc # "read_c0") =>
        /\ pc = "closed"
        /\ err = CASE SentC0 = 1 -> "RTMP version 1 is unsupported"
                   [] SentC0 = 6 -> "RTMP version 6 is unsupported"
                   [] SentC0 = 255 -> "RTMP version 255 is unsupported"
                   [] OTHER -> "?"
        /\ Consumed = 1

\* version 255 has been refused while C1 was already on the socket
C14_Witness ==
    /\ entry = "handshake"
    /\ pc = "closed"
    /\ Len(hs_sent) = 1 + HANDSHAKE_CHUNK_SIZE
    /\ SentC0 = 255
    /\ Len(wire) >= 1

\* C15: with a valid C0, a C1 whose bytes [4..8] are not all zero ends the
\* handshake with "Invalid handshake: Zeroes field in handshake must be all
\* zeroes".
C15_ZeroFieldRejected ==
    (/\ entry = "handshake"
     /\ Len(hs_sent) >= 1 + HANDSHAKE_CHUNK_SIZE
     /\ SentC0 = 3
     /\ ~ZeroField(SentC1)
     /\ pc \notin {"read_c0", "read_c1"}) =>
        /\ pc = "closed"
        /\ err = "Invalid handshake: Zeroes field in handshake must be all zeroes"

\* C16: once C2 has been read, the handshake ends with "Echoed timestamp does
\* not match" if C2[0..4] differs from S1[0..4], else with "Random data echo
\* does not match" if C2[8..] differs from S1[8..], else it succeeds,
\* whatever C2[4..8] is.
C16_C2Checks ==
    (/\ entry = "handshake"
     /\ pc \in {"done", "closed"}
     /\ Len(written) = 1 + 2 * HANDSHAKE_CHUNK_SIZE
     /\ Len(hs_sent) >= 1 + 2 * HANDSHAKE_CHUNK_SIZE) =>
        IF Take(SentC2, 4) # Take(WrittenS1, 4)
        THEN pc = "closed" /\ err = "Invalid handshake: Echoed timestamp does not match"
        ELSE IF Drop(SentC2, 8) # Drop(WrittenS1, 8)
        THEN pc = "closed" /\ err = "Invalid handshake: Random data echo does not match"
        ELSE pc = "done"

\* C17: S2 as written equals the C1 the client sent on bytes [0..4] and
\* [8..1536], and its bytes [4..8] are a timestamp of the server's clock.
C17_S2EchoesC1 ==
    (entry = "handshake" /\ Len(written) = 1 + 2 * HANDSHAKE_CHUNK_SIZE) =>
        /\ Take(WrittenS2, 4) = Take(SentC1, 4)
        /\ Drop(WrittenS2, 8) = Drop(SentC1, 8)
        /\ SubSeq(WrittenS2, 5, 8) \in Timestamps

\* C18: when read_chunk returns, its buffer holds the 1536 bytes of C1 (of
\* C2) in order and exactly those bytes have been taken from the socket,
\* however the transport has split them.
C18_ReadChunkWhole ==
    [][/\ (pc = "read_c1" /\ pc' # "read_c1") =>
            /\ SocketRead(client_buf, wire).buf = SentC1
            /\ Consumed' = 1 + HANDSHAKE_CHUNK_SIZE
       /\ (pc = "read_c2" /\ pc' # "read_c2") =>
            /\ SocketRead(client_buf, wire).buf = SentC2
            /\ Consumed' = 1 + 2 * HANDSHAKE_CHUNK_SIZE]_vars

\* C19: a completed message that fails to parse closes the connection.
C19_ParseErrorCloses ==
    [][(pc = "parse_message" /\ pc' # pc /\ ~parsed'.ok) => pc' = "closed"]_vars

\* C20: a step in which a connection ends with an error leaves the listener
\* accepting and every other connection (its multiplexer, max_chunk_size and
\* progress) as it was.
C20_ErrorIsolated ==
    [][\A i \in DOMAIN conns :
         (conns[i].pc # "closed" /\ conns'[i].pc = "closed") =>
            /\ listening' = listening
            /\ DOMAIN conns' = DOMAIN conns
            /\ \A j \in DOMAIN conns \ {i} : conns'[j] = conns[j]]_vars

\* one connection has ended with an error while another holds a Partial and
\* the listener still accepts
C20_Witness ==
    /\ entry = "run"
    /\ listening
    /\ \E i, j \in DOMAIN conns :
         /\ conns[i].pc = "closed"
         /\ conns[i].err # ""
         /\ conns[j].pc = "read_chunk"
         /\ conns[j].chunk_streams # NoStreams

\* a connection that is suspended inside the handshake or waiting for chunk bytes
Stalled(c) == c.pc \in {"handshake", "read_chunk"}

\* C21: whatever number of accepted connections are stalled, the accept step
\* of the listener is enabled, and the connection it accepts starts its own
\* handshake.
C21_AcceptStaysEnabled ==
    (/\ entry = "run"
     /\ listening
     /\ Len(conns) < MaxConns
     /\ \E i \in DOMAIN conns : Stalled(conns[i]))
        => ENABLED Accept

\* a connection was accepted behind two stalled ones and is in its handshake
C21_Witness ==
    /\ entry = "run"
    /\ listening
    /\ Len(conns) >= 3
    /\ conns[1].pc = "read_chunk"
    /\ conns[2].pc = "handshake"
    /\ conns[Len(conns)].pc = "handshake"

\* C22: a transient failure of accept() leaves the listener in its accept loop.
C22_TransientAcceptRetried ==
    [][(entry = "run" /\ listening /\ err' \in TransientAcceptErrors) => listening']_vars

\* C23: when the server waits for a chunk header that is not complete and the
\* peer has not closed, the only step the server takes is the timeout: the
\* connection is closed with Timeout, its Partials are discarded and no byte
\* is read then or afterwards.
C23_HeaderTimeoutCloses ==
    [][/\ (pc = "read_chunk" /\ ~eof /\ ReadHeader(wire, TRUE).st = "short" /\ pc' # pc) =>
            /\ pc' = "closed"
            /\ err' = "Timeout"
            /\ chunk_streams' = NoStreams
            /\ wire' = wire
       /\ (pc = "closed" /\ err = "Timeout") =>
            /\ pc' = "closed"
            /\ chunk_streams' = NoStreams
            /\ Len(wire') >= Len(wire)
            /\ emitted' = emitted]_vars

\* the timeout has closed a connection that had received chunks and whose
\* next header had arrived in part
C23_Witness ==
    /\ entry = "process"
    /\ pc = "closed"
    /\ err = "Timeout"
    /\ nsent >= 1
    /\ wire # <<>>

\* Message::parse_message has returned
Parsed == entry = "parse_message" /\ pc = "done"

\* the type ids the message parser dispatches on
KnownTypeIds == {1, 2, 3, 4, 5, 6, 8, 9, 14, 15, 16, 17, 18, 20, 22}

C25_RecognizedNotDecoded ==
    (Parsed /\ input.message_type_id \in {18, 14, 16, 22}) =>
        /\ parsed.ok
        /\ parsed.kind \in {"Data", "SharedObject", "Aggregate"}

\* C26: parse_message fails with UnsupportedEncoding exactly for the type ids
\* 15 and 17.
C26_UnsupportedEncoding ==
    Parsed =>
        ((~parsed.ok /\ parsed.kind = "UnsupportedEncoding")
            <=> input.message_type_id \in {15, 17})

\* C28: a SetPeerBandwidth payload that holds offset 6 parses to the window
\* size of bytes [0..4] and the limit type of the byte at offset 6, a shorter
\* one raises InvalidMessageSize, as does every protocol-control payload
\* shorter than 4 bytes.
C28_SetPeerBandwidth ==
    /\ (Parsed /\ input.message_type_id = SET_PEER_BANDWIDTH) =>
          IF Len(input.buf) >= 7
          THEN /\ parsed.ok
               /\ parsed.kind = "SetPeerBandwidth"
               /\ parsed.data = U32BE(input.buf, 1)
               /\ parsed.arg = input.buf[7]
          ELSE ~parsed.ok /\ parsed.kind = "InvalidMessageSize"
    /\ (/\ Parsed
        /\ input.message_type_id \in {SET_CHUNK_SIZE, ABORT, ACK, WINDOW_ACK_SIZE,
                                       SET_PEER_BANDWIDTH}
        /\ Len(input.buf) < 4) =>
          (~parsed.ok /\ parsed.kind = "InvalidMessageSize")

\* C29: a SetBufferLength event parses to the stream id of bytes [2..6] and
\* the buffer duration of bytes [6..10].
C29_SetBufferLength ==
    (/\ Parsed
     /\ input.message_type_id = USER_CONTROL_TYPE
     /\ Len(input.buf) >= 10
     /\ input.buf[1] = 0
     /\ input.buf[2] = 3) =>
        /\ parsed.ok
        /\ parsed.kind = "SetBufferLength"
        /\ parsed.data = U32BE(input.buf, 3)
        /\ parsed.arg = U32BE(input.buf, 7)

\* the position of the first byte behind the encoding of the k-th value
EndOf(k) == Len(EncodeAll(SubSeq(amf_in, 1, k)))

\* C30: a decode() that starts at the first byte of a value and returns Ok
\* leaves the cursor at the first byte behind that value's encoding, the
\* 3-byte end marker of an object included.
C30_CursorAdvance ==
    entry = "decode" =>
        \A k \in 1..Len(decoded) :
            (/\ decoded[k].ok
             /\ \A i \in 1..(k - 1) : decoded[i].ok /\ decoded[i].position = EndOf(i))
                => decoded[k].position = EndOf(k)

\* the command name of an AMF0 command payload: the text of the string value
\* it starts with
CommandName(buf) == SubSeq(buf, 4, 3 + buf[2] * 256 + buf[3])

\* an AMF0 command whose name, transaction id and command object are well
\* formed has been parsed
ParsedCommand ==
    /\ Parsed
    /\ input.message_type_id = COMMAND_AMF0
    /\ ParseBaseCommand(input.buf).ok

\* C27: the namespace of an AMF0 command follows from its name alone: a
\* NetStream name gives a NetStream command or an error, any other name a
\* NetConnection command: Connect, Close, CreateStream or Call of that name.
C27_NamespaceByName ==
    ParsedCommand =>
        IF CommandName(input.buf) \in NetStreamNames
        THEN ~parsed.ok \/ parsed.kind = "NetStreamCommand"
        ELSE /\ parsed.ok
             /\ parsed.kind = "NetConnectionCommand"
             /\ parsed.arg.command \in {"Connect", "Close", "CreateStream", "Call"}
             /\ parsed.arg.command = "Call" => parsed.arg.name = CommandName(input.buf)

\* a decode() of a boolean has returned: the buffer starts with the boolean
\* marker and holds a body byte behind it
DecodedBool ==
    /\ entry = "decode"
    /\ Len(decoded) >= 1
    /\ Len(decoder.buf) >= 2
    /\ decoder.buf[1] = BOOL

\* C31: decoding a boolean yields false for the body byte zero and true for
\* every non-zero body byte.
C31_BoolNonZeroIsTrue ==
    DecodedBool =>
        /\ decoded[1].ok
        /\ decoded[1].value = AMFBoolean(decoder.buf[2] # 0)

\* read_header has been called on the bytes of input
HeaderRead == entry = "read_header" /\ pc = "done"

\* the low 6 bits of the first byte of the basic header
LowBits == input[1] % 64

\* the length of the basic header: 2 bytes when the low 6 bits of the first
\* are 0, 3 bytes when they are 1, else 1 byte
BasicLen == IF LowBits = 0 THEN 2 ELSE IF LowBits = 1 THEN 3 ELSE 1

\* the u32 of the bytes s[i..i+3] read little-endian
U32LE(s, i) == <<s[i + 3] * 256 + s[i + 2], s[i + 1] * 256 + s[i]>>

\* C32: in a Type 0 message header the message stream id is the little-endian
\* value of its 4 bytes, the timestamp and the message length the big-endian
\* values of their 3 bytes.
C32_Type0StreamIdLittleEndian ==
    (HeaderRead /\ input[1] \div 64 = 0 /\ parsed_header.st = "ok") =>
        /\ parsed_header.header.message_stream_id = U32LE(input, BasicLen + 8)
        /\ parsed_header.header.timestamp = U24BE(input, BasicLen + 1)
        /\ parsed_header.header.message_length = U24BE(input, BasicLen + 4)

\* C33: the basic header gives the chunk type of the top 2 bits of its first
\* byte and the chunk stream id byte2 + 64 (low 6 bits 0), byte3 * 256 +
\* byte2 + 64 (low 6 bits 1, for every byte2 and byte3) or the low 6 bits.
C33_BasicHeaderChunkStreamId ==
    HeaderRead =>
        /\ parsed_header.st = "ok"
        /\ parsed_header.header.chunk_type = input[1] \div 64
        /\ parsed_header.header.chunk_stream_id =
             CASE LowBits = 0 -> input[2] + 64
               [] LowBits = 1 -> input[3] * 256 + input[2] + 64
               [] OTHER -> LowBits

\* the peer has closed the socket and read_chunk of handshake.rs has less
\* than a full C1 or C2 to read
PeerClosedEarly ==
    /\ pc \in {"read_c1", "read_c2"}
    /\ eof
    /\ total_bytes_read + Len(wire) < HANDSHAKE_CHUNK_SIZE

\* C34: when the peer closes the socket before a full C1 or C2 has been
\* received, the handshake ends with an error and the connection is closed;
\* it does not loop forever.
C34_PeerCloseEndsHandshake ==
    PeerClosedEarly ~> (pc = "closed" /\ err # "")

\* a message of n bytes, longer than the payload of its opening chunk, is
\* open on the chunk stream c, and all the bytes it still lacks have arrived
\* in a Type 3 chunk on c that the connection is about to read
RestArrived(c, n) ==
    /\ entry = "process"
    /\ pc = "read_chunk"
    /\ c \in DOMAIN chunk_streams
    /\ chunk_streams[c].length = n
    /\ Len(chunk_streams[c].bytes) < n
    /\ Len(wire) = 1 + n - Len(chunk_streams[c].bytes)
    /\ wire[1] = 3 * 64 + c

\* the connection has emitted a message of n bytes on the chunk stream c
EmittedOn(c, n) ==
    \E i \in 1..Len(emitted) : emitted[i].cs_id = c /\ Len(emitted[i].bytes) = n

\* C35: a message longer than one chunk's payload, sent as an opening chunk
\* and Type 3 chunks with the rest of its bytes, is emitted once all its
\* bytes have arrived.
C35_ContinuationCompletes ==
    \A f \in MessageMenu :
        RestArrived(f.csid, f.lt[1]) ~> EmittedOn(f.csid, f.lt[1])

====
